---- MODULE Spec2Model ----
(***************************************************************************)
(* Model of the LLM orchestration layer of the curriculum generator:       *)
(* app/curriculum_agent.py (model registry, retrying call executor,        *)
(* response parser, single-call and dual-call orchestrators) and the       *)
(* streaming boundary of app/main.py (event_generator).                    *)
(*                                                                         *)
(* One behaviour of the model is one generation request, from the choice   *)
(* of the entry point and the model key to the terminal outcome.           *)
(***************************************************************************)
EXTENDS Integers, Sequences, FiniteSets, TLC

(***************************************************************************)
(* JSON values.  A decoded value is a pair <<tag, payload>>:               *)
(*   <<"obj", f>>   f a function from key strings to JSON values           *)
(*   <<"list", s>>  s a sequence of JSON values                            *)
(*   <<"str", s>>   s the sequence of text atoms between the quotes        *)
(*   <<"num", n>>   <<"null", <<>> >>                                      *)
(* json.loads decodes null to None, so PyNone, an unset local, is JNull.    *)
(***************************************************************************)
EmptyFcn == [k \in {} |-> 0]
JObj(f) == <<"obj", f>>
JList(s) == <<"list", s>>
JStr(s) == <<"str", s>>
JNum(n) == <<"num", n>>
JNull == <<"null", <<>> >>
EmptyDict == JObj(EmptyFcn)
PyNone == JNull

IsDict(v) == v[1] = "obj"

\* dict.get(key, default) on a value that is a dict
DictGet(v, key, default) == IF key \in DOMAIN v[2] THEN v[2][key] ELSE default

\* dict.keys() as a set
Keys(v) == DOMAIN v[2]

\* Python truthiness of a decoded value (bool(x)), as 'if curriculum:' uses it
Truthy(v) ==
    CASE v[1] = "obj"  -> DOMAIN v[2] /= {}
      [] v[1] = "list" -> Len(v[2]) > 0
      [] v[1] = "str"  -> Len(v[2]) > 0
      [] v[1] = "num"  -> v[2] /= 0
      [] OTHER         -> FALSE

(***************************************************************************)
(* Text.  A text is a sequence of atoms: the fence marker, the hint word   *)
(* "json", a whitespace run "ws", the double quote "Q", the JSON           *)
(* punctuation, the literals "null" and "1", and words.                    *)
(***************************************************************************)
FENCE == "FENCE"
WS == "ws"
Q == "Q"

MinOf(S) == CHOOSE m \in S : \A k \in S : m <= k
MaxOf(S) == CHOOSE m \in S : \A k \in S : m >= k

\* Index of the first atom at or after i that is not whitespace (Len+1 if none)
SkipWs(toks, i) ==
    LET S == {k \in i..Len(toks) : toks[k] /= WS}
    IN IF S /= {} THEN MinOf(S)
       ELSE IF i > Len(toks) THEN i ELSE Len(toks) + 1

\* str.strip()
Strip(toks) ==
    LET S == {k \in 1..Len(toks) : toks[k] /= WS}
    IN IF S = {} THEN <<>> ELSE SubSeq(toks, MinOf(S), MaxOf(S))

(***************************************************************************)
(* json.loads: a recursive-descent decoder over the atoms.  Each Parse*    *)
(* returns [ok, v, i]: whether a value was decoded, the value, and the     *)
(* index of the first atom after it.                                       *)
(***************************************************************************)
Fail == [ok |-> FALSE, v |-> JNull, i |-> 0]
Ok(v, i) == [ok |-> TRUE, v |-> v, i |-> i]

\* Index of the closing quote of a string literal whose content starts at i
CloseQuote(toks, i) ==
    LET S == {k \in i..Len(toks) : toks[k] = Q}
    IN IF S = {} THEN 0 ELSE MinOf(S)

ParseString(toks, i) ==
    IF i <= Len(toks) /\ toks[i] = Q
    THEN LET c == CloseQuote(toks, i + 1)
         IN IF c = 0 THEN Fail
            ELSE Ok(JStr(IF c = i + 1 THEN <<>> ELSE SubSeq(toks, i + 1, c - 1)), c + 1)
    ELSE Fail

\* The decoder keeps a stack of the containers that are open: a frame is
\* [kind, obj, list, key], kind "obj" or "list", key the member name whose
\* value is awaited.
ObjFrame == [kind |-> "obj", obj |-> EmptyFcn, list |-> <<>>, key |-> ""]
ListFrame == [kind |-> "list", obj |-> EmptyFcn, list |-> <<>>, key |-> ""]

Top(stack) == stack[Len(stack)]
Pop(stack) == SubSeq(stack, 1, Len(stack) - 1)

\* the value v completes a member or an element of the innermost container
\* (a later member with the same key replaces the earlier one)
PushValue(stack, v) ==
    LET f == Top(stack)
        g == IF f.kind = "obj"
             THEN [f EXCEPT !.obj = [x \in (DOMAIN f.obj) \cup {f.key} |->
                                        IF x = f.key THEN v ELSE f.obj[x]]]
             ELSE [f EXCEPT !.list = Append(@, v)]
    IN Append(Pop(stack), g)

\* the word between the quotes of a member name (every key of the texts
\* below is one word)
KeyOf(str) == IF Len(str[2]) = 1 THEN str[2][1] ELSE ""

\* One step of the decoder from index i0 with the open containers in stack.
\* expect is what the grammar allows next: "value", "key" (a member name and
\* its colon) or "sep" (a comma or the close of the innermost container).
\* The step either ends the decoding (done, with r its result) or moves on.
Ended(r) == [done |-> TRUE, r |-> r, i |-> 0, stack |-> <<>>, expect |-> ""]
Goto(i, stack, expect) ==
    [done |-> FALSE, r |-> Fail, i |-> i, stack |-> stack, expect |-> expect]

\* a value v ends just before index n
Reduce(stack, v, n) ==
    IF stack = <<>> THEN Ended(Ok(v, n)) ELSE Goto(n, PushValue(stack, v), "sep")

\* the innermost container closes just before index n
Close(stack, n) ==
    Reduce(Pop(stack),
           IF Top(stack).kind = "obj" THEN JObj(Top(stack).obj) ELSE JList(Top(stack).list),
           n)

DecodeStep(toks, i0, stack, expect) ==
    LET i == SkipWs(toks, i0)
    IN IF i > Len(toks) THEN Ended(Fail)
       ELSE CASE expect = "value" ->
                CASE toks[i] = "null" -> Reduce(stack, JNull, i + 1)
                  [] toks[i] = "1"    -> Reduce(stack, JNum(1), i + 1)
                  [] toks[i] = "0"    -> Reduce(stack, JNum(0), i + 1)
                  [] toks[i] = Q      ->
                        LET str == ParseString(toks, i)
                        IN IF str.ok THEN Reduce(stack, str.v, str.i) ELSE Ended(Fail)
                  [] toks[i] = "{"    ->
                        LET n == SkipWs(toks, i + 1)
                        IN IF n <= Len(toks) /\ toks[n] = "}"
                           THEN Reduce(stack, EmptyDict, n + 1)
                           ELSE Goto(i + 1, Append(stack, ObjFrame), "key")
                  [] toks[i] = "["    ->
                        LET n == SkipWs(toks, i + 1)
                        IN IF n <= Len(toks) /\ toks[n] = "]"
                           THEN Reduce(stack, JList(<<>>), n + 1)
                           ELSE Goto(i + 1, Append(stack, ListFrame), "value")
                  [] OTHER            -> Ended(Fail)
              [] expect = "key" ->
                LET k == ParseString(toks, i)
                    c == IF k.ok THEN SkipWs(toks, k.i) ELSE 0
                IN IF ~k.ok \/ c > Len(toks) THEN Ended(Fail)
                   ELSE IF toks[c] /= ":" THEN Ended(Fail)
                   ELSE Goto(c + 1,
                             Append(Pop(stack), [Top(stack) EXCEPT !.key = KeyOf(k.v)]),
                             "value")
              [] OTHER ->
                CASE toks[i] = "," /\ Top(stack).kind = "obj"  -> Goto(i + 1, stack, "key")
                  [] toks[i] = "," /\ Top(stack).kind = "list" -> Goto(i + 1, stack, "value")
                  [] toks[i] = "}" /\ Top(stack).kind = "obj"  -> Close(stack, i + 1)
                  [] toks[i] = "]" /\ Top(stack).kind = "list" -> Close(stack, i + 1)
                  [] OTHER -> Ended(Fail)

RECURSIVE Decode(_, _, _, _)
Decode(toks, i, stack, expect) ==
    LET s == DecodeStep(toks, i, stack, expect)
    IN IF s.done THEN s.r ELSE Decode(toks, s.i, s.stack, s.expect)

ParseValue(toks, i) == Decode(toks, i, <<>>, "value")

\* json.loads(text): one value, surrounded by optional whitespace, nothing after
json_loads(toks) ==
    LET r == ParseValue(toks, 1)
    IN IF r.ok /\ SkipWs(toks, r.i) > Len(toks) THEN r ELSE Fail

(***************************************************************************)
(* re.search on the two fence patterns of _parse_json_response.            *)
(***************************************************************************)
\* Index of the first fence atom at or after i (0 if none)
NextFence(toks, i) ==
    LET S == {k \in i..Len(toks) : toks[k] = FENCE}
    IN IF S = {} THEN 0 ELSE MinOf(S)

\* Index of the first json-hinted fence opening at or after i (0 if none)
NextJsonFence(toks, i) ==
    LET S == {k \in i..(Len(toks) - 1) : toks[k] = FENCE /\ toks[k + 1] = "json"}
    IN IF S = {} THEN 0 ELSE MinOf(S)

\* Largest e <= close such that toks[e .. close-1] is all whitespace
BackWs(toks, lo, close) ==
    IF close <= lo THEN close
    ELSE MinOf({e \in lo..close : \A k \in e..(close - 1) : toks[k] = WS})

\* group(1) of  <open> \s* ([\s\S]*?) \s* <fence>  where the opening marker
\* ends just before index after: [matched, group]
FenceGroup(toks, after) ==
    LET start == SkipWs(toks, after)
        close == NextFence(toks, start)
    IN IF close = 0 THEN [matched |-> FALSE, group |-> <<>>]
       ELSE LET e == BackWs(toks, start, close)
            IN [matched |-> TRUE,
                group |-> IF e <= start THEN <<>> ELSE SubSeq(toks, start, e - 1)]

\* re.search on the first pattern (json-hinted fence)
SearchJsonFence(toks) ==
    LET o == NextJsonFence(toks, 1)
    IN IF o = 0 THEN [matched |-> FALSE, group |-> <<>>] ELSE FenceGroup(toks, o + 2)

\* re.search on the second pattern (any fence)
SearchPlainFence(toks) ==
    LET o == NextFence(toks, 1)
    IN IF o = 0 THEN [matched |-> FALSE, group |-> <<>>] ELSE FenceGroup(toks, o + 1)

\* The text handed to json.loads: the first pattern that matches, in the
\* order of the patterns list, else the text itself
\* (mutant: the patterns tried in the other order)
ExtractFenced_PlainFirst(toks) ==
    LET j == SearchJsonFence(toks)
        p == SearchPlainFence(toks)
    IN IF p.matched THEN Strip(p.group)
       ELSE IF j.matched THEN Strip(j.group)
       ELSE toks
ExtractFenced(toks) ==
    LET j == SearchJsonFence(toks)
        p == SearchPlainFence(toks)
    IN IF j.matched THEN Strip(j.group)
       ELSE IF p.matched THEN Strip(p.group)
       ELSE toks

(***************************************************************************)
(* Exceptions.  cls is the exception class, msg the start of its message,  *)
(* last the class of the attempt error a RetryError wraps or of the decode *)
(* error a parse failure was raised from, parts the errors a message       *)
(* quotes.                                                                 *)
(***************************************************************************)
NoExc == [cls |-> "", msg |-> "", last |-> "", parts |-> <<>>]
Exc(cls) == [cls |-> cls, msg |-> "", last |-> "", parts |-> <<>>]

\* tenacity.RetryError(last_attempt), raised from the last attempt's exception
RetryError(e) == [cls |-> "RetryError", msg |-> "", last |-> e.cls, parts |-> <<>>]

\* str(e), as an f-string renders an exception into a message
StrOf(e) == <<e.cls, e.msg, e.last>>

\* The class hierarchy isinstance() sees: the litellm exception classes the
\* model backend raises, none a subclass of another
RateLimitError == "RateLimitError"
APIConnectionError == "APIConnectionError"
Timeout == "Timeout"
ServiceUnavailableError == "ServiceUnavailableError"
InternalServerError == "InternalServerError"
BadRequestError == "BadRequestError"
AuthenticationError == "AuthenticationError"

BackendErrors ==
    {RateLimitError, APIConnectionError, Timeout, ServiceUnavailableError,
     InternalServerError, BadRequestError, AuthenticationError}

(***************************************************************************)
(* Model registry                                                          *)
(***************************************************************************)
AVAILABLE_MODELS ==
    [k \in {"claude-sonnet-4.5", "gemini-3-flash", "gemini-3-pro"} |->
        CASE k = "claude-sonnet-4.5" ->
                [id |-> "claude-sonnet-4-5-20250929", name |-> "Claude Sonnet 4.5",
                 provider |-> "Anthropic"]
          [] k = "gemini-3-flash" ->
                [id |-> "gemini/gemini-3-flash-preview", name |-> "Gemini 3 Flash",
                 provider |-> "Google"]
          [] k = "gemini-3-pro" ->
                [id |-> "gemini/gemini-3-pro-preview", name |-> "Gemini 3 Pro",
                 provider |-> "Google"]]

DEFAULT_MODEL == "gemini-3-flash"

\* model_key = None
NoKey == "<None>"

\* _get_model_id: [ok, id, exc]
UnknownModel == [cls |-> "ValueError", msg |-> "Unknown model", last |-> "", parts |-> <<>>]

\* (mutant: a key missing from the registry resolves to the default model)
GetModelIdFor_UnknownIsDefault(key) ==
    [ok |-> TRUE,
     id |-> AVAILABLE_MODELS[IF key \in DOMAIN AVAILABLE_MODELS THEN key ELSE DEFAULT_MODEL].id,
     exc |-> NoExc]
GetModelIdFor(key) ==
    IF key \in DOMAIN AVAILABLE_MODELS
    THEN [ok |-> TRUE, id |-> AVAILABLE_MODELS[key].id, exc |-> NoExc]
    ELSE [ok |-> FALSE, id |-> "", exc |-> UnknownModel]

\* (mutant: the requested key is ignored in favour of the default model)
_get_model_id_AlwaysDefault(key) == GetModelIdFor(DEFAULT_MODEL)
_get_model_id(key) == GetModelIdFor(IF key = NoKey THEN DEFAULT_MODEL ELSE key)

(***************************************************************************)
(* Retry policy of _call_llm_sync and _call_llm_async (the tenacity        *)
(* decorator)                                                              *)
(***************************************************************************)
\* (mutant: the tuple with the internal-server error class added)
RETRY_EXCEPTIONS_WithInternal ==
    {RateLimitError, APIConnectionError, Timeout, ServiceUnavailableError,
     InternalServerError}
RETRY_EXCEPTIONS ==
    {RateLimitError, APIConnectionError, Timeout, ServiceUnavailableError}

\* retry=retry_if_exception_type(RETRY_EXCEPTIONS)
ShouldRetry(cls) == cls \in RETRY_EXCEPTIONS

\* stop=stop_after_attempt(3)
STOP_AFTER_ATTEMPT == 3
\* (mutant: an off-by-one stop condition, one attempt too many)
ShouldStop_OffByOne(attempt_number) == attempt_number > STOP_AFTER_ATTEMPT
ShouldStop(attempt_number) == attempt_number >= STOP_AFTER_ATTEMPT

\* wait=wait_exponential(multiplier=1, min=2, max=10):
\* max(max(0, min), min(multiplier * 2 ** (attempt_number - 1), max))
WAIT_MULTIPLIER == 1
WAIT_MIN == 2
WAIT_MAX == 10
Max2(a, b) == IF a >= b THEN a ELSE b
Min2(a, b) == IF a <= b THEN a ELSE b
\* (mutant: the exponent counted from the attempt number, not from zero)
WaitExponential_FromAttempt(attempt_number) ==
    Max2(Max2(0, WAIT_MIN), Min2(WAIT_MULTIPLIER * 2 ^ attempt_number, WAIT_MAX))
WaitExponential(attempt_number) ==
    Max2(Max2(0, WAIT_MIN), Min2(WAIT_MULTIPLIER * 2 ^ (attempt_number - 1), WAIT_MAX))

(***************************************************************************)
(* _parse_json_response: [ok, v, exc].  The error raised on a decode       *)
(* failure is a ValueError raised while the JSONDecodeError is handled.    *)
(***************************************************************************)
ParseFailure ==
    [cls |-> "ValueError", msg |-> "Failed to parse LLM response as JSON",
     last |-> "JSONDecodeError", parts |-> <<>>]

\* original[:500], an atom of the text counted as one character
PREVIEW_LEN == 500
\* (mutant: the whole response, no bound on the preview)
Preview_Unbounded(original) == original
Preview(original) == SubSeq(original, 1, Min2(PREVIEW_LEN, Len(original)))

\* [ok, v, exc, log]: the decoded value or the error raised, and log, the
\* response previews written by logger.error
_parse_json_response(response_text) ==
    LET r == json_loads(ExtractFenced(response_text))
    IN IF r.ok THEN [ok |-> TRUE, v |-> r.v, exc |-> NoExc, log |-> <<>>]
       ELSE [ok |-> FALSE, v |-> PyNone, exc |-> ParseFailure,
             log |-> <<Preview(response_text)>>]

(***************************************************************************)
(* The texts a model backend may return.  The backend is free to ignore    *)
(* the prompt, so every call may return any of them.                       *)
(***************************************************************************)
TG == "teacher_guide"
SM == "student_materials"

SectionA == <<"{", Q, "a", Q, ":", WS, "1", "}">>
SectionB == <<"{", Q, "b", Q, ":", WS, "1", "}">>

\* {"teacher_guide": {"a": 1}, "student_materials": {"b": 1}}
TextFull ==
    <<"{", Q, TG, Q, ":", WS>> \o SectionA \o <<",", WS, Q, SM, Q, ":", WS>>
        \o SectionB \o <<"}">>
\* the same object in a json-hinted fence, after a line of prose
TextFullJsonFence == <<"Here", WS, FENCE, "json", WS>> \o TextFull \o <<WS, FENCE>>
\* {"teacher_guide": {"a": 1}} in an unhinted fence
TextTeacherOnly ==
    <<FENCE, WS, "{", Q, TG, Q, ":", WS>> \o SectionA \o <<"}", WS, FENCE>>
\* {"student_materials": {"b": 1}}
TextStudentOnly == <<"{", Q, SM, Q, ":", WS>> \o SectionB \o <<"}">>
\* a bare section: {"a": 1}
TextBare == SectionA
\* the full shape with a third key: {"teacher_guide": {}, "student_materials": {}, "notes": 1}
TextExtraKey ==
    <<"{", Q, TG, Q, ":", "{", "}", ",", Q, SM, Q, ":", "{", "}", ",",
      Q, "notes", Q, ":", "1", "}">>
TextEmptyObject == <<"{", "}">>
TextNull == <<"null">>
TextList == <<"[", "1", "]">>
\* output cut off by the token limit
TextTruncated == <<"{", Q, TG, Q, ":", WS, "{", Q, "a", Q, ":">>
TextEmpty == <<>>

AllTexts ==
    {TextFull, TextFullJsonFence, TextTeacherOnly, TextStudentOnly, TextBare,
     TextExtraKey, TextEmptyObject, TextNull, TextList, TextTruncated, TextEmpty}

\* the texts the backend returns in the orchestration runs: one per shape of
\* decoded value, and one that does not decode
ResponseTexts ==
    {TextFullJsonFence, TextTeacherOnly, TextStudentOnly, TextBare,
     TextEmptyObject, TextNull, TextList, TextTruncated}

(***************************************************************************)
(* Responses that exercise the parser, as the cases of TestJsonParsing do: *)
(* objects serialized by json.dumps, bare or in a fence, with or without   *)
(* prose around the fence; texts with two fenced blocks; texts that do not *)
(* decode.                                                                 *)
(***************************************************************************)
\* the order in which the members of the sample objects were inserted
KeySeq == <<TG, SM, "a", "b">>
MembersOf(f) == SelectSeq(KeySeq, LAMBDA k : k \in DOMAIN f)

\* json.dumps(v) with the default separators
RECURSIVE Dumps(_)
RECURSIVE DumpsItems(_, _)
RECURSIVE DumpsMembers(_, _, _)
Dumps(v) ==
    CASE v[1] = "null" -> <<"null">>
      [] v[1] = "num"  -> <<IF v[2] = 1 THEN "1" ELSE "0">>
      [] v[1] = "str"  -> <<Q>> \o v[2] \o <<Q>>
      [] v[1] = "list" -> <<"[">> \o DumpsItems(v[2], 1) \o <<"]">>
      [] OTHER         -> <<"{">> \o DumpsMembers(v[2], MembersOf(v[2]), 1) \o <<"}">>
DumpsItems(items, i) ==
    IF i > Len(items) THEN <<>>
    ELSE (IF i > 1 THEN <<",", WS>> ELSE <<>>) \o Dumps(items[i]) \o DumpsItems(items, i + 1)
DumpsMembers(f, ks, i) ==
    IF i > Len(ks) THEN <<>>
    ELSE (IF i > 1 THEN <<",", WS>> ELSE <<>>) \o <<Q, ks[i], Q, ":", WS>>
            \o Dumps(f[ks[i]]) \o DumpsMembers(f, ks, i + 1)

Obj1(k, v) == JObj([x \in {k} |-> v])
Obj2(k1, v1, k2, v2) == JObj([x \in {k1, k2} |-> IF x = k1 THEN v1 ELSE v2])

\* objects without a fence sequence in their strings
PlainObjects ==
    {EmptyDict,
     Obj1("a", JNum(1)),
     Obj1("a", JStr(<<"value">>)),
     Obj1("a", JList(<<JNum(1), JNull>>)),
     Obj2(TG, Obj1("a", JStr(<<"Test", WS, "Lesson">>)), SM, Obj1("b", JNum(0)))}
\* objects with a string value that holds triple backticks
BacktickObjects ==
    {Obj1("a", JStr(<<FENCE>>)),
     Obj1("a", JStr(<<"use", WS, FENCE, "json", WS, "1", WS, FENCE>>)),
     Obj2(TG, Obj1("a", JStr(<<FENCE, "x", FENCE>>)), SM, EmptyDict)}
SampleObjects == PlainObjects \cup BacktickObjects

Forms == {"bare", "json_fence", "plain_fence", "json_fence_in_prose", "plain_fence_in_prose"}

JsonBlock(body) == <<FENCE, "json", WS>> \o body \o <<WS, FENCE>>
PlainBlock(body) == <<FENCE, WS>> \o body \o <<WS, FENCE>>
InProse(block) == <<"Here", WS, WS>> \o block \o <<WS, WS, "That", WS, "is", WS, "all">>

Render(body, form) ==
    CASE form = "bare" -> body
      [] form = "json_fence" -> JsonBlock(body)
      [] form = "plain_fence" -> PlainBlock(body)
      [] form = "json_fence_in_prose" -> InProse(JsonBlock(body))
      [] OTHER -> InProse(PlainBlock(body))

RoundTripTexts == {Render(Dumps(o), form) : o \in SampleObjects, form \in Forms}

\* two fenced blocks with different content, hinted or not, in each order
BlockKinds == {"json", "plain"}
Block(kind, body) == IF kind = "json" THEN JsonBlock(body) ELSE PlainBlock(body)
TwoBlocks(k1, k2) == Block(k1, SectionA) \o <<WS, "or", WS>> \o Block(k2, SectionB)
TwoBlockTexts == {TwoBlocks(k1, k2) : k1, k2 \in BlockKinds}

\* texts that do not decode: malformed, incomplete, empty, malformed inside a
\* fence, and one longer than the logged preview
TextInvalid == <<"{", "invalid", WS, "json", "}">>
TextIncomplete == <<"{", Q, "key", Q, ":", WS, Q, "value", Q>>
TextFencedInvalid == InProse(JsonBlock(TextInvalid))
TextLongInvalid == [i \in 1..(PREVIEW_LEN + 2) |-> IF i = 1 THEN "{" ELSE "x"]
MalformedTexts ==
    {TextInvalid, TextIncomplete, TextEmpty, TextFencedInvalid, TextLongInvalid, TextTruncated}

ParserTexts == RoundTripTexts \cup TwoBlockTexts \cup MalformedTexts

\* generate_curriculum returns the parser's result as it is, so it is the
\* entry point through which the parser's cases are driven
TextsFor(m) == IF m = "blocking" THEN ResponseTexts \cup ParserTexts ELSE ResponseTexts

\* the parser's result for each response text of the model, computed once
ParsedResponse ==
    [t \in ResponseTexts \cup ParserTexts |-> _parse_json_response(t)] @@ <<>>

(***************************************************************************)
(* State                                                                   *)
(***************************************************************************)
VARIABLES
    mode,        \* the entry point this request goes through
    model_key,   \* the request's model key (NoKey for None)
    num_days,    \* the request's number of days, teacher_input["num_days"]
    req,         \* the other fields of the request
    pc,          \* where the entry point's code stands
    call,        \* per call slot, the state of the retrying executor
    backend,     \* the backend invocations started: [slot, model, max_tokens, stream]
    chunk_count, \* text fragments consumed from the stream
    loc,         \* the locals of the dual-call poll loop
    events,      \* the events the orchestrator generator has yielded
    sse,         \* the events event_generator has sent to the client
    outcome      \* what the orchestrator returned or raised

vars == <<mode, model_key, num_days, req, pc, call, backend, chunk_count, loc, events, sse, outcome>>

\* generate_curriculum, generate_curriculum_streaming iterated directly,
\* POST /generate-stream (event_generator over generate_curriculum_streaming),
\* generate_curriculum_parallel, generate_curriculum_parallel_streaming
Modes == {"blocking", "streaming", "boundary", "parallel", "parallel_streaming"}
StreamModes == {"streaming", "boundary"}

\* num_days: int = Field(1, ge=1, le=3)
MIN_DAYS == 1
MAX_DAYS == 3

RequestKeys == {NoKey, "nonexistent-model"} \cup DOMAIN AVAILABLE_MODELS

Slots == {"main", "teacher", "student"}
SubSlots == {"teacher", "student"}

\* out is what the coroutine around the call ends with, [ok, v, exc]: the
\* decoded response or the exception
NoOut == [ok |-> FALSE, v |-> PyNone, exc |-> NoExc, log |-> <<>>]

IdleCall ==
    [st |-> "idle", attempt_number |-> 0, slept |-> <<>>, logged |-> <<>>,
     exc |-> NoExc, text |-> <<>>, out |-> NoOut, order |-> 0]

\* the call enters its first attempt
FirstAttempt == [IdleCall EXCEPT !.st = "attempting", !.attempt_number = 1]

NoOutcome == [kind |-> "none", val |-> PyNone, exc |-> NoExc]
Returned(v) == [kind |-> "returned", val |-> v, exc |-> NoExc]
Raised(e) == [kind |-> "raised", val |-> PyNone, exc |-> e]

InitLoc ==
    [teacher_done |-> FALSE, student_done |-> FALSE,
     teacher_result |-> PyNone, student_result |-> PyNone,
     teacher_error |-> NoExc, student_error |-> NoExc]

\* max_tokens of the three call sites
MAX_TOKENS_SINGLE == 16000
MAX_TOKENS_TEACHER == 8000
MAX_TOKENS_STUDENT == 10000

\* a progress event is yielded every 50 fragments
PROGRESS_EVERY == 50
\* bound on the fragments of one stream
MaxChunks == 100

Progress(stage, message) ==
    [type |-> "progress", stage |-> stage, message |-> message, data |-> PyNone]
Curriculum(data) ==
    [type |-> "curriculum", stage |-> "", message |-> "", data |-> data]

\* the fields of CurriculumRequest and their constraints
MIN_GRADE == 0
MAX_GRADE == 12
SUBJECTS == {"Math", "ELA", "Science", "History"}
MAX_TOPIC_LEN == 500
MIN_SESSION_LENGTH == 5
MAX_SESSION_LENGTH == 120
DEFAULT_SESSION_LENGTH == 45
LEARNING_GOAL_TYPES == {"introduce", "practice", "assess", "remediate"}
GROUP_FORMATS == {"individual", "small_group", "whole_class"}
\* the ids of pedagogical_approaches.json
VALID_APPROACHES == {"3_act_math"}
\* pedagogical_approach = None
NoApproach == "<None>"

\* characters of a topic
LF == "LF"
CR == "CR"
SP == " "

\* the request of the tests: grade 6, Math, fields left at their defaults
DefaultRequest ==
    [grade |-> 6, subject |-> "Math", topic |-> <<"f", "r">>,
     session_length |-> DEFAULT_SESSION_LENGTH, learning_goal_type |-> "practice",
     group_format |-> "small_group", pedagogical_approach |-> NoApproach]

Init ==
    /\ mode \in Modes
    /\ model_key \in RequestKeys
    /\ num_days \in MIN_DAYS..MAX_DAYS
    /\ req = DefaultRequest
    /\ pc = "start"
    /\ call = [c \in Slots |-> IdleCall]
    /\ backend = {}
    /\ chunk_count = 0
    /\ loc = InitLoc
    /\ events = <<>>
    /\ sse = <<>>
    /\ outcome = NoOutcome

(***************************************************************************)
(* event_generator of POST /generate-stream                                *)
(***************************************************************************)
SseProgress(stage, message) ==
    [type |-> "progress", stage |-> stage, message |-> message, data |-> PyNone]
SseError(message) ==
    [type |-> "error", stage |-> "", message |-> message, data |-> PyNone]
SseResult(curriculum) ==
    [type |-> "result", stage |-> "", message |-> "", data |-> curriculum]

MSG_TIMED_OUT == "Generation timed out. Try again or select a different model."
MSG_FAILED == "Generation failed. Please try again."

\* the body of the for loop: what is sent for one update of the generator
ForwardUpdate(update) ==
    IF update.type = "curriculum"
    THEN SseProgress("curriculum_complete", "Curriculum generated!")
    ELSE update

\* the two except clauses
\* (mutant: the error event names the class of the exception)
HandleException_NamesClass(e) == SseError(e.cls)
HandleException(e) ==
    IF e.cls = Timeout THEN SseError(MSG_TIMED_OUT) ELSE SseError(MSG_FAILED)

\* the generator yields update
\* (mutant: the update is put in front of the events already produced)
Yield_InFront(update) ==
    /\ outcome' = outcome
    /\ events' = <<update>> \o events
    /\ sse' = IF mode = "boundary" THEN <<ForwardUpdate(update)>> \o sse ELSE sse
Yield(update) ==
    /\ outcome' = outcome
    /\ events' = Append(events, update)
    /\ sse' = IF mode = "boundary" THEN Append(sse, ForwardUpdate(update)) ELSE sse

\* the generator raises e
Raise(e) ==
    /\ outcome' = Raised(e)
    /\ events' = events
    /\ sse' = IF mode = "boundary" THEN Append(sse, HandleException(e)) ELSE sse

(***************************************************************************)
(* The retrying executor: one attempt of _call_llm_sync / _call_llm_async  *)
(* ends, and tenacity decides what follows.                                *)
(***************************************************************************)
\* the attempt returned: the call returns the response
AfterReturn(rec, text) == [rec EXCEPT !.st = "returned", !.text = text]

\* the error a call raises once it stops retrying (the decorator sets no reraise)
ExhaustedError(e) == RetryError(e)

\* the attempt raised an exception of class cls
\* (mutant: the retry is not logged)
AfterRaise_SilentRetry(rec, cls) ==
    IF ~ShouldRetry(cls)
    THEN [rec EXCEPT !.st = "raised", !.exc = Exc(cls)]
    ELSE IF ShouldStop(rec.attempt_number)
    THEN [rec EXCEPT !.st = "raised", !.exc = ExhaustedError(Exc(cls))]
    ELSE [rec EXCEPT !.st = "sleeping", !.exc = Exc(cls),
                     !.slept = Append(@, WaitExponential(rec.attempt_number))]
AfterRaise(rec, cls) ==
    IF ~ShouldRetry(cls)
    THEN [rec EXCEPT !.st = "raised", !.exc = Exc(cls)]
    ELSE IF ShouldStop(rec.attempt_number)
    THEN [rec EXCEPT !.st = "raised", !.exc = ExhaustedError(Exc(cls))]
    ELSE [rec EXCEPT !.st = "sleeping", !.exc = Exc(cls),
                     !.slept = Append(@, WaitExponential(rec.attempt_number)),
                     !.logged = Append(@, rec.attempt_number)]

CallDone(rec) == rec.st \in {"returned", "raised"}

\* generate_curriculum, generate_teacher_guide_async and
\* generate_student_materials_async: the call's exception propagates, the
\* call's response is decoded at once
TaskOutcome(rec) ==
    IF rec.st = "raised" THEN [ok |-> FALSE, v |-> PyNone, exc |-> rec.exc, log |-> <<>>]
    ELSE ParsedResponse[rec.text]

\* generate_curriculum_streaming decodes only after the stream is read
WithOutcome(rec, streamed) ==
    IF ~CallDone(rec) \/ (streamed /\ rec.st = "returned") THEN rec
    ELSE [rec EXCEPT !.out = TaskOutcome(rec)]

(***************************************************************************)
(* Merging                                                                 *)
(***************************************************************************)
AttributeError == Exc("AttributeError")

\* result.get(key, result): [ok, v, exc]; a value that is no dict has no .get
\* (mutant: the wrapping key is never unwrapped)
GetOrSelf_NoUnwrap(result, key) ==
    IF IsDict(result) THEN [ok |-> TRUE, v |-> result, exc |-> NoExc]
    ELSE [ok |-> FALSE, v |-> PyNone, exc |-> AttributeError]
GetOrSelf(result, key) ==
    IF IsDict(result) THEN [ok |-> TRUE, v |-> DictGet(result, key, result), exc |-> NoExc]
    ELSE [ok |-> FALSE, v |-> PyNone, exc |-> AttributeError]

TwoKeys(tg, sm) == JObj([k \in {TG, SM} |-> IF k = TG THEN tg ELSE sm])

\* the dict display {"teacher_guide": <t>, "student_materials": <s>}, its
\* values evaluated left to right
BuildResult(t, s) ==
    IF ~t.ok THEN [ok |-> FALSE, v |-> PyNone, exc |-> t.exc]
    ELSE IF ~s.ok THEN [ok |-> FALSE, v |-> PyNone, exc |-> s.exc]
    ELSE [ok |-> TRUE, v |-> TwoKeys(t.v, s.v), exc |-> NoExc]

Const(v) == [ok |-> TRUE, v |-> v, exc |-> NoExc]

_merge_parallel_results(teacher_result, student_result) ==
    BuildResult(GetOrSelf(teacher_result, TG), GetOrSelf(student_result, SM))

\* partial results of generate_curriculum_parallel_streaming
MergeTeacherFailed(student_result) ==
    BuildResult(Const(EmptyDict), GetOrSelf(student_result, SM))
MergeStudentFailed(teacher_result) ==
    BuildResult(GetOrSelf(teacher_result, TG), Const(EmptyDict))

\* (mutant: the message quotes the teacher error only)
BothFailed_TeacherOnly(teacher_error, student_error) ==
    [cls |-> "ValueError", msg |-> "Both generations failed", last |-> "",
     parts |-> <<StrOf(teacher_error)>>]
BothFailed(teacher_error, student_error) ==
    [cls |-> "ValueError", msg |-> "Both generations failed", last |-> "",
     parts |-> <<StrOf(teacher_error), StrOf(student_error)>>]

(***************************************************************************)
(* What the caller of a call does when the call's attempt ends in rec      *)
(***************************************************************************)
Finished == [kind |-> "finished", val |-> PyNone, exc |-> NoExc]

Other(c) == IF c = "teacher" THEN "student" ELSE "teacher"

\* asyncio.gather of the two sub-calls: the first exception is raised to the
\* awaiter at once; with both results it returns them and the merge runs
AsOutcome(r) == IF r.ok THEN Returned(r.v) ELSE Raised(r.exc)

Gather(c, rec) ==
    IF outcome.kind /= "none" THEN UNCHANGED <<pc, outcome>>
    ELSE IF ~rec.out.ok THEN pc' = "done" /\ outcome' = Raised(rec.out.exc)
    ELSE IF ~CallDone(call[Other(c)]) THEN UNCHANGED <<pc, outcome>>
    ELSE /\ pc' = "done"
         /\ outcome' = AsOutcome(
                IF c = "teacher"
                THEN _merge_parallel_results(rec.out.v, call["student"].out.v)
                ELSE _merge_parallel_results(call["teacher"].out.v, rec.out.v))

Continue(c, rec) ==
    IF ~CallDone(rec) THEN UNCHANGED <<pc, outcome, events, sse>>
    ELSE CASE mode = "blocking" ->
                /\ pc' = "done"
                /\ outcome' = AsOutcome(rec.out)
                /\ UNCHANGED <<events, sse>>
           [] mode \in StreamModes ->
                IF rec.st = "raised"
                THEN pc' = "done" /\ Raise(rec.exc)
                ELSE pc' = "streaming" /\ UNCHANGED <<outcome, events, sse>>
           [] mode = "parallel" -> Gather(c, rec) /\ UNCHANGED <<events, sse>>
           [] OTHER -> UNCHANGED <<pc, outcome, events, sse>>

\* order: the place of the call among the sub-calls in order of completion
\* (1 for the first to complete, 2 for a sub-call that completes after the
\* other one)
CompletedAs(c, rec) ==
    IF ~CallDone(rec) THEN rec
    ELSE [rec EXCEPT !.order = IF c \in SubSlots /\ CallDone(call[Other(c)]) THEN 2 ELSE 1]

Deliver(c, rec) == call' = [call EXCEPT ![c] = CompletedAs(c, rec)] /\ Continue(c, rec)

\* litellm.completion / acompletion returns
AttemptReturns(c) ==
    /\ call[c].st = "attempting"
    /\ \E text \in TextsFor(mode) :
          Deliver(c, WithOutcome(AfterReturn(call[c], text), mode \in StreamModes))
    /\ UNCHANGED <<mode, model_key, num_days, req, backend, chunk_count, loc>>

\* litellm.completion / acompletion raises
AttemptRaises(c) ==
    /\ call[c].st = "attempting"
    /\ \E cls \in BackendErrors :
          Deliver(c, WithOutcome(AfterRaise(call[c], cls), mode \in StreamModes))
    /\ UNCHANGED <<mode, model_key, num_days, req, backend, chunk_count, loc>>

\* the backoff sleep ends and the next attempt starts
NextAttempt(c) ==
    /\ call[c].st = "sleeping"
    /\ call' = [call EXCEPT ![c].st = "attempting", ![c].attempt_number = @ + 1,
                           ![c].exc = NoExc]
    /\ UNCHANGED <<mode, model_key, num_days, req, pc, backend, chunk_count, loc, events, sse, outcome>>

Invocation(slot, id, max_tokens, stream) ==
    [slot |-> slot, model |-> id, max_tokens |-> max_tokens, stream |-> stream]

(***************************************************************************)
(* generate_curriculum                                                     *)
(***************************************************************************)
GenerateCurriculum ==
    /\ mode = "blocking" /\ pc = "start"
    /\ LET m == _get_model_id(model_key)
       IN IF ~m.ok
          THEN /\ pc' = "done" /\ outcome' = Raised(m.exc)
               /\ UNCHANGED <<call, backend>>
          ELSE /\ pc' = "calling" /\ outcome' = outcome
               /\ call' = [call EXCEPT !["main"] = FirstAttempt]
               /\ backend' = backend \cup {Invocation("main", m.id, MAX_TOKENS_SINGLE, FALSE)}
    /\ UNCHANGED <<mode, model_key, num_days, req, chunk_count, loc, events, sse>>

(***************************************************************************)
(* POST /generate-stream: validation of the request by CurriculumRequest   *)
(***************************************************************************)
validate_model(v) == v = NoKey \/ v \in DOMAIN AVAILABLE_MODELS

\* Field(..., ge=0, le=12)
ValidGrade(v) == MIN_GRADE <= v /\ v <= MAX_GRADE
\* Field(..., pattern="^(Math|ELA|Science|History)$")
ValidSubject(v) == v \in SUBJECTS
\* Field(..., max_length=500), checked on the topic as it was sent
ValidTopicLength(v) == Len(v) <= MAX_TOPIC_LEN
\* Field(45, ge=5, le=120)
ValidSessionLength(v) == MIN_SESSION_LENGTH <= v /\ v <= MAX_SESSION_LENGTH
\* Field(1, ge=1, le=3)
ValidNumDays(v) == MIN_DAYS <= v /\ v <= MAX_DAYS
\* the patterns of learning_goal_type and group_format
\* (mutant: learning_goal_type is not checked)
ValidLearningGoalType_Any(v) == TRUE
ValidLearningGoalType(v) == v \in LEARNING_GOAL_TYPES
ValidGroupFormat(v) == v \in GROUP_FORMATS

\* v.strip()
StripTopic(v) ==
    LET kept == {i \in DOMAIN v : v[i] /= SP}
        first == CHOOSE i \in kept : \A j \in 1..(i - 1) : v[j] = SP
        last == CHOOSE i \in kept : \A j \in (i + 1)..Len(v) : v[j] = SP
    IN IF kept = {} THEN <<>> ELSE SubSeq(v, first, last)

\* the field validators: [ok, v]
validate_topic(v) ==
    IF \E i \in DOMAIN v : v[i] \in {LF, CR}
    THEN [ok |-> FALSE, v |-> v]
    ELSE [ok |-> TRUE, v |-> StripTopic(v)]

validate_pedagogical_approach(v) ==
    IF v = NoApproach \/ v = "" THEN [ok |-> TRUE, v |-> NoApproach]
    ELSE IF v \notin VALID_APPROACHES THEN [ok |-> FALSE, v |-> v]
    ELSE [ok |-> TRUE, v |-> v]

\* CurriculumRequest(...): [ok, v], v the validated request
CurriculumRequest(r, model, days) ==
    [ok |-> /\ ValidGrade(r.grade)
            /\ ValidSubject(r.subject)
            /\ ValidTopicLength(r.topic)
            /\ validate_topic(r.topic).ok
            /\ ValidSessionLength(r.session_length)
            /\ ValidNumDays(days)
            /\ ValidLearningGoalType(r.learning_goal_type)
            /\ ValidGroupFormat(r.group_format)
            /\ validate_pedagogical_approach(r.pedagogical_approach).ok
            /\ validate_model(model),
     v |-> [r EXCEPT !.topic = validate_topic(@).v,
                     !.pedagogical_approach = validate_pedagogical_approach(@).v]]

ValidateRequest ==
    /\ mode = "boundary" /\ pc = "start"
    /\ LET validated == CurriculumRequest(req, model_key, num_days)
       IN IF validated.ok
          THEN pc' = "accepted" /\ req' = validated.v
          ELSE pc' = "rejected_422" /\ req' = req
    /\ UNCHANGED <<mode, model_key, num_days, call, backend, chunk_count, loc, events, sse, outcome>>

(***************************************************************************)
(* generate_curriculum_streaming, one action per run to the next yield.    *)
(* In mode "boundary" each action includes what event_generator does with  *)
(* the update or the exception.                                            *)
(***************************************************************************)
StreamFirstNext ==
    /\ \/ mode = "streaming" /\ pc = "start"
       \/ mode = "boundary" /\ pc = "accepted"
    /\ LET m == _get_model_id(model_key)
       IN IF ~m.ok
          THEN pc' = "done" /\ Raise(m.exc)
          ELSE pc' = "loading" /\ Yield(Progress("loading", "Loading standards..."))
    /\ UNCHANGED <<mode, model_key, num_days, req, call, backend, chunk_count, loc>>

StreamLoaded ==
    /\ mode \in StreamModes /\ pc = "loading"
    /\ pc' = "generating"
    /\ Yield(Progress("generating", "Generating curriculum..."))
    /\ UNCHANGED <<mode, model_key, num_days, req, call, backend, chunk_count, loc>>

StreamCall ==
    /\ mode \in StreamModes /\ pc = "generating"
    /\ pc' = "calling"
    /\ call' = [call EXCEPT !["main"] = FirstAttempt]
    /\ backend' = backend \cup
          {Invocation("main", _get_model_id(model_key).id, MAX_TOKENS_SINGLE, TRUE)}
    /\ UNCHANGED <<mode, model_key, num_days, req, chunk_count, loc, events, sse, outcome>>

\* fifty more fragments have arrived
StreamFragments ==
    /\ mode \in StreamModes /\ pc = "streaming"
    /\ chunk_count + PROGRESS_EVERY <= MaxChunks
    /\ chunk_count' = chunk_count + PROGRESS_EVERY
    /\ Yield(Progress("generating", "Generating curriculum... (N chars)"))
    /\ UNCHANGED <<mode, model_key, num_days, req, pc, call, backend, loc>>

\* the stream ends
StreamExhausted ==
    /\ mode \in StreamModes /\ pc = "streaming"
    /\ pc' = "parsing"
    /\ Yield(Progress("parsing", "Parsing response..."))
    /\ UNCHANGED <<mode, model_key, num_days, req, call, backend, chunk_count, loc>>

\* the stream breaks while fragments are read
\* (mutant: a broken stream is opened again by a further attempt)
StreamBroken_Reopens ==
    /\ mode \in StreamModes /\ pc = "streaming"
    /\ ~ShouldStop(call["main"].attempt_number)
    /\ pc' = "calling"
    /\ call' = [call EXCEPT !["main"].st = "attempting", !["main"].attempt_number = @ + 1]
    /\ UNCHANGED <<mode, model_key, num_days, req, backend, chunk_count, loc, events, sse, outcome>>
StreamBroken ==
    /\ mode \in StreamModes /\ pc = "streaming"
    /\ pc' = "done"
    /\ \E cls \in BackendErrors : Raise(Exc(cls))
    /\ UNCHANGED <<mode, model_key, num_days, req, call, backend, chunk_count, loc>>

YieldOrRaise(r) ==
    IF r.ok THEN pc' = "curriculum" /\ Yield(Curriculum(r.v))
    ELSE pc' = "done" /\ Raise(r.exc)

ParseStreamed(r) ==
    /\ call' = [call EXCEPT !["main"].out = r]
    /\ YieldOrRaise(r)

StreamParse ==
    /\ mode \in StreamModes /\ pc = "parsing"
    /\ ParseStreamed(ParsedResponse[call["main"].text])
    /\ UNCHANGED <<mode, model_key, num_days, req, backend, chunk_count, loc>>

\* curriculum = update["data"] of the last update
LastCurriculum == events[Len(events)].data

\* the generator returns; event_generator tests 'if curriculum:'
StreamReturns ==
    /\ mode \in StreamModes /\ pc = "curriculum"
    /\ outcome' = Finished
    /\ events' = events
    /\ IF mode = "boundary" /\ Truthy(LastCurriculum)
       THEN /\ pc' = "docx"
            /\ sse' = Append(sse, SseProgress("docx", "Generating document..."))
       ELSE pc' = "done" /\ sse' = sse
    /\ UNCHANGED <<mode, model_key, num_days, req, call, backend, chunk_count, loc>>

\* save_combined_document reads curriculum.get(...) and the two sections'
\* .get(...): it raises on a curriculum or a section that is no dict
RenderRaises(curriculum) ==
    \/ ~IsDict(curriculum)
    \/ \E k \in {TG, SM} : k \in Keys(curriculum) /\ ~IsDict(curriculum[2][k])

BoundaryDocx ==
    /\ mode = "boundary" /\ pc = "docx"
    /\ IF RenderRaises(LastCurriculum)
       THEN pc' = "done" /\ sse' = Append(sse, HandleException(AttributeError))
       ELSE pc' = "complete" /\ sse' = Append(sse, SseProgress("complete", "Complete!"))
    /\ UNCHANGED <<mode, model_key, num_days, req, call, backend, chunk_count, loc, events, outcome>>

BoundaryResult ==
    /\ mode = "boundary" /\ pc = "complete"
    /\ pc' = "done"
    /\ sse' = Append(sse, SseResult(LastCurriculum))
    /\ UNCHANGED <<mode, model_key, num_days, req, call, backend, chunk_count, loc, events, outcome>>

(***************************************************************************)
(* generate_curriculum_parallel                                            *)
(***************************************************************************)
\* (mutant: only the teacher call is started)
StartSubCalls_TeacherOnly(id) ==
    /\ call' = [call EXCEPT !["teacher"] = FirstAttempt]
    /\ backend' = backend \cup {Invocation("teacher", id, MAX_TOKENS_TEACHER, FALSE)}
StartSubCalls(id) ==
    /\ call' = [call EXCEPT !["teacher"] = FirstAttempt, !["student"] = FirstAttempt]
    /\ backend' = backend \cup {Invocation("teacher", id, MAX_TOKENS_TEACHER, FALSE),
                                Invocation("student", id, MAX_TOKENS_STUDENT, FALSE)}

GenerateCurriculumParallel ==
    /\ mode = "parallel" /\ pc = "start"
    /\ LET m == _get_model_id(model_key)
       IN IF ~m.ok
          THEN /\ pc' = "done" /\ outcome' = Raised(m.exc)
               /\ UNCHANGED <<call, backend>>
          ELSE /\ pc' = "gathering" /\ outcome' = outcome
               /\ StartSubCalls(m.id)
    /\ UNCHANGED <<mode, model_key, num_days, req, chunk_count, loc, events, sse>>

(***************************************************************************)
(* generate_curriculum_parallel_streaming, one action per run to the next  *)
(* yield or to the next poll sleep                                         *)
(***************************************************************************)
ParallelFirstNext ==
    /\ mode = "parallel_streaming" /\ pc = "start"
    /\ LET m == _get_model_id(model_key)
       IN IF ~m.ok
          THEN pc' = "done" /\ Raise(m.exc)
          ELSE pc' = "loading" /\ Yield(Progress("loading", "Loading standards..."))
    /\ UNCHANGED <<mode, model_key, num_days, req, call, backend, chunk_count, loc>>

ParallelLoaded ==
    /\ mode = "parallel_streaming" /\ pc = "loading"
    /\ pc' = "generating"
    /\ Yield(Progress("generating", "Generating curriculum (parallel)..."))
    /\ UNCHANGED <<mode, model_key, num_days, req, call, backend, chunk_count, loc>>

\* both tasks are created, then the first poll sleep lets them start
ParallelCreateTasks ==
    /\ mode = "parallel_streaming" /\ pc = "generating"
    /\ pc' = "poll_sleep"
    /\ StartSubCalls(_get_model_id(model_key).id)
    /\ UNCHANGED <<mode, model_key, num_days, req, chunk_count, loc, events, sse, outcome>>

\* the teacher branch of the loop body has found its task done
TeacherFound(l) ==
    IF call["teacher"].out.ok
    THEN [l EXCEPT !.teacher_done = TRUE, !.teacher_result = call["teacher"].out.v]
    ELSE [l EXCEPT !.teacher_done = TRUE, !.teacher_error = call["teacher"].out.exc]

TeacherMessage(l) ==
    IF l.teacher_error = NoExc
    THEN "Teacher guide complete, waiting for student materials..."
    ELSE "Teacher guide failed, waiting for student materials..."

StudentFound(l) ==
    IF call["student"].out.ok
    THEN [l EXCEPT !.student_done = TRUE, !.student_result = call["student"].out.v]
    ELSE [l EXCEPT !.student_done = TRUE, !.student_error = call["student"].out.exc]

StudentMessage(l) ==
    IF l.student_error /= NoExc THEN "Student materials failed."
    ELSE IF l.teacher_done THEN "Student materials complete!"
    ELSE "Student materials complete, waiting for teacher guide..."

\* after the loop: raise if both failed, else announce the merge
AfterLoop(l) ==
    IF l.teacher_error /= NoExc /\ l.student_error /= NoExc
    THEN pc' = "done" /\ Raise(BothFailed(l.teacher_error, l.student_error))
    ELSE IF l.teacher_error /= NoExc
    THEN /\ pc' = "merge_teacher_failed"
         /\ Yield(Progress("parsing", "Merging partial results (teacher guide unavailable)..."))
    ELSE IF l.student_error /= NoExc
    THEN /\ pc' = "merge_student_failed"
         /\ Yield(Progress("parsing", "Merging partial results (student materials unavailable)..."))
    ELSE /\ pc' = "merge"
         /\ Yield(Progress("parsing", "Merging results..."))

\* the while condition
\* (mutant: the loop ends as soon as one side is done)
LoopTest_EitherDone(l) ==
    IF ~(l.teacher_done \/ l.student_done)
    THEN pc' = "poll_sleep" /\ UNCHANGED <<events, sse, outcome>>
    ELSE AfterLoop(l)
LoopTest(l) ==
    IF ~(l.teacher_done /\ l.student_done)
    THEN pc' = "poll_sleep" /\ UNCHANGED <<events, sse, outcome>>
    ELSE AfterLoop(l)

\* the student branch of the loop body, then the while condition
\* (mutant: the student's completion is recorded without a notification)
StudentCheck_Silent(l) ==
    IF ~l.student_done /\ CallDone(call["student"])
    THEN loc' = StudentFound(l) /\ LoopTest(StudentFound(l))
    ELSE loc' = l /\ LoopTest(l)
StudentCheck(l) ==
    IF ~l.student_done /\ CallDone(call["student"])
    THEN /\ loc' = StudentFound(l)
         /\ pc' = "yield_student"
         /\ Yield(Progress("generating", StudentMessage(StudentFound(l))))
    ELSE loc' = l /\ LoopTest(l)

\* asyncio.sleep(0.5) returns and the loop body runs
Poll ==
    /\ mode = "parallel_streaming" /\ pc = "poll_sleep"
    /\ IF ~loc.teacher_done /\ CallDone(call["teacher"])
       THEN /\ loc' = TeacherFound(loc)
            /\ pc' = "yield_teacher"
            /\ Yield(Progress("generating", TeacherMessage(TeacherFound(loc))))
       ELSE StudentCheck(loc)
    /\ UNCHANGED <<mode, model_key, num_days, req, call, backend, chunk_count>>

\* the consumer asks for the next event after the teacher notification
ResumeAfterTeacher ==
    /\ mode = "parallel_streaming" /\ pc = "yield_teacher"
    /\ StudentCheck(loc)
    /\ UNCHANGED <<mode, model_key, num_days, req, call, backend, chunk_count>>

\* the consumer asks for the next event after the student notification
ResumeAfterStudent ==
    /\ mode = "parallel_streaming" /\ pc = "yield_student"
    /\ loc' = loc
    /\ LoopTest(loc)
    /\ UNCHANGED <<mode, model_key, num_days, req, call, backend, chunk_count>>

\* the data of the curriculum event, by the branch taken after the loop
MergeData ==
    CASE pc = "merge_teacher_failed" -> MergeTeacherFailed(loc.student_result)
      [] pc = "merge_student_failed" -> MergeStudentFailed(loc.teacher_result)
      [] OTHER -> _merge_parallel_results(loc.teacher_result, loc.student_result)

ParallelMerge ==
    /\ mode = "parallel_streaming"
    /\ pc \in {"merge", "merge_teacher_failed", "merge_student_failed"}
    /\ YieldOrRaise(MergeData)
    /\ UNCHANGED <<mode, model_key, num_days, req, call, backend, chunk_count, loc>>

ParallelReturns ==
    /\ mode = "parallel_streaming" /\ pc = "curriculum"
    /\ pc' = "done"
    /\ outcome' = Finished
    /\ UNCHANGED <<mode, model_key, num_days, req, call, backend, chunk_count, loc, events, sse>>

(***************************************************************************)
(* The consumer of generate_curriculum_parallel_streaming stops: it closes *)
(* the generator where it is suspended at a yield, or is cancelled while   *)
(* the generator awaits its poll sleep.  The generator has no try/finally  *)
(* and no except clause around its yields or its sleep, so it just ends;   *)
(* nothing cancels, awaits or otherwise touches the two tasks.             *)
(***************************************************************************)
Closed == [kind |-> "closed", val |-> PyNone, exc |-> NoExc]

SuspendedAt ==
    {"loading", "generating", "poll_sleep", "yield_teacher", "yield_student",
     "merge", "merge_teacher_failed", "merge_student_failed", "curriculum"}

\* (mutant: closing cancels the teacher task if it is still running)
OnClose_CancelTeacher(calls) ==
    [calls EXCEPT !["teacher"].st = IF @ \in {"attempting", "sleeping"} THEN "cancelled" ELSE @]
OnClose(calls) == calls

ConsumerStops ==
    /\ mode = "parallel_streaming" /\ pc \in SuspendedAt
    /\ pc' = "closed"
    /\ outcome' = Closed
    /\ call' = OnClose(call)
    /\ UNCHANGED <<mode, model_key, num_days, req, backend, chunk_count, loc, events, sse>>

(***************************************************************************)
(* Specification                                                           *)
(***************************************************************************)
Next ==
    \/ GenerateCurriculum
    \/ ValidateRequest
    \/ StreamFirstNext
    \/ StreamLoaded
    \/ StreamCall
    \/ StreamFragments
    \/ StreamExhausted
    \/ StreamBroken
    \/ StreamParse
    \/ StreamReturns
    \/ BoundaryDocx
    \/ BoundaryResult
    \/ GenerateCurriculumParallel
    \/ ParallelFirstNext
    \/ ParallelLoaded
    \/ ParallelCreateTasks
    \/ Poll
    \/ ResumeAfterTeacher
    \/ ResumeAfterStudent
    \/ ParallelMerge
    \/ ParallelReturns
    \/ \E c \in Slots : AttemptReturns(c)
    \/ \E c \in Slots : AttemptRaises(c)
    \/ \E c \in Slots : NextAttempt(c)
    \/ ConsumerStops

Spec == Init /\ [][Next]_vars

\* the event loop keeps running: an attempt on the backend ends (the request
\* has a timeout) and a backoff sleep ends, whether or not anything still
\* waits for the call
CallStep(c) == AttemptReturns(c) \/ AttemptRaises(c) \/ NextAttempt(c)

\* The dual-call strategy alone, for one request: generate_curriculum_parallel
\* and generate_curriculum_parallel_streaming with their two sub-calls
DualModes == {"parallel", "parallel_streaming"}
DualKeys == {NoKey, "nonexistent-model"}

DualInit ==
    /\ mode \in DualModes
    /\ model_key \in DualKeys
    /\ num_days = MIN_DAYS
    /\ req = DefaultRequest
    /\ pc = "start"
    /\ call = [c \in Slots |-> IdleCall]
    /\ backend = {}
    /\ chunk_count = 0
    /\ loc = InitLoc
    /\ events = <<>>
    /\ sse = <<>>
    /\ outcome = NoOutcome

DualNext ==
    \/ GenerateCurriculumParallel
    \/ ParallelFirstNext
    \/ ParallelLoaded
    \/ ParallelCreateTasks
    \/ Poll
    \/ ResumeAfterTeacher
    \/ ResumeAfterStudent
    \/ ParallelMerge
    \/ ParallelReturns
    \/ ConsumerStops
    \/ \E c \in SubSlots : CallStep(c)

FairSpec ==
    /\ DualInit /\ [][DualNext]_vars
    /\ WF_vars(CallStep("teacher")) /\ WF_vars(CallStep("student"))

\* The validation of POST /generate-stream alone, over requests around the
\* limits of each field, up to the first model call of an accepted request
Fill(n) == [i \in 1..n |-> "x"]

GradeSamples == {MIN_GRADE - 1, MIN_GRADE, MAX_GRADE, MAX_GRADE + 1}
SubjectSamples == {"Math", "History", "Art"}
TopicSamples ==
    {<<"f", "r">>, <<SP, "f", SP>>, Fill(MAX_TOPIC_LEN), Fill(MAX_TOPIC_LEN + 1),
     <<"f", LF, "x">>, <<"f", CR>>}
SessionSamples ==
    {MIN_SESSION_LENGTH - 1, MIN_SESSION_LENGTH, MAX_SESSION_LENGTH, MAX_SESSION_LENGTH + 1}
DaySamples == {MIN_DAYS - 1, MIN_DAYS, MAX_DAYS, MAX_DAYS + 1}
KeySamples == {NoKey, "gemini-3-pro", "nonexistent-model"}
ApproachSamples == {NoApproach, "", "3_act_math", "invalid_approach"}
GoalSamples == {"practice", "lecture"}
GroupSamples == {"small_group", "pairs"}

RequestSamples ==
    [grade : GradeSamples, subject : SubjectSamples, topic : TopicSamples,
     session_length : SessionSamples, learning_goal_type : GoalSamples,
     group_format : GroupSamples, pedagogical_approach : ApproachSamples]

BoundaryInit ==
    /\ mode = "boundary"
    /\ model_key \in KeySamples
    /\ num_days \in DaySamples
    /\ req \in RequestSamples
    /\ pc = "start"
    /\ call = [c \in Slots |-> IdleCall]
    /\ backend = {}
    /\ chunk_count = 0
    /\ loc = InitLoc
    /\ events = <<>>
    /\ sse = <<>>
    /\ outcome = NoOutcome

BoundaryNext ==
    \/ ValidateRequest
    \/ StreamFirstNext
    \/ StreamLoaded
    \/ StreamCall

BoundarySpec == BoundaryInit /\ [][BoundaryNext]_vars

\* The two streaming generators alone, with a consumer that keeps asking
\* for the next event and an event loop that keeps running
StreamingModes == {"streaming", "parallel_streaming"}

StreamingInit ==
    /\ mode \in StreamingModes
    /\ model_key \in DualKeys
    /\ num_days = MIN_DAYS
    /\ req = DefaultRequest
    /\ pc = "start"
    /\ call = [c \in Slots |-> IdleCall]
    /\ backend = {}
    /\ chunk_count = 0
    /\ loc = InitLoc
    /\ events = <<>>
    /\ sse = <<>>
    /\ outcome = NoOutcome

\* the consumer resumes the generator, or the poll sleep ends
GeneratorStep ==
    \/ StreamFirstNext
    \/ StreamLoaded
    \/ StreamCall
    \/ StreamFragments
    \/ StreamExhausted
    \/ StreamBroken
    \/ StreamParse
    \/ StreamReturns
    \/ ParallelFirstNext
    \/ ParallelLoaded
    \/ ParallelCreateTasks
    \/ Poll
    \/ ResumeAfterTeacher
    \/ ResumeAfterStudent
    \/ ParallelMerge
    \/ ParallelReturns

StreamingNext ==
    \/ GeneratorStep
    \/ ConsumerStops
    \/ \E c \in Slots : CallStep(c)

LiveSpec ==
    /\ StreamingInit /\ [][StreamingNext]_vars
    /\ WF_vars(GeneratorStep)
    /\ WF_vars(CallStep("main")) /\ WF_vars(CallStep("teacher")) /\ WF_vars(CallStep("student"))

(***************************************************************************)
(* Properties                                                              *)
(***************************************************************************)
NonRetryableSeen == {InternalServerError, BadRequestError, AuthenticationError}

\* C1: in both executor variants (the sync call in slot "main", the async
\* calls in slots "teacher" and "student") a call never makes more than 3
\* attempts; a call that raises because its attempts all failed with a
\* retryable error has made exactly 3 attempts and slept twice; a call never
\* sleeps after its 3rd attempt; and a call whose first attempt failed with a
\* non-retryable error has raised after exactly 1 attempt, with no sleep.
C1_RetryBound ==
    \A c \in Slots :
        /\ call[c].attempt_number <= 3
        /\ (call[c].st = "sleeping" => call[c].attempt_number < 3)
        /\ (call[c].st = "raised" /\ call[c].exc.cls = "RetryError"
                => call[c].attempt_number = 3 /\ Len(call[c].slept) = 2)
        /\ (call[c].st = "raised" /\ call[c].exc.cls /= "RetryError"
                => /\ call[c].exc.cls \in NonRetryableSeen
                   /\ call[c].attempt_number = Len(call[c].slept) + 1)
        /\ (call[c].st = "sleeping" => call[c].exc.cls \notin NonRetryableSeen)

\* both variants at once: the async teacher call has exhausted its 3 attempts
\* and the async student call has failed once with a non-retryable error
C1_Witness ==
    /\ call["teacher"].st = "raised" /\ call["teacher"].exc.cls = "RetryError"
    /\ call["teacher"].attempt_number = 3
    /\ call["student"].st = "raised" /\ call["student"].exc.cls = BadRequestError
    /\ call["student"].attempt_number = 1

\* the class of the error the last attempt of a finished call raised
LastAttemptClass(rec) ==
    IF rec.exc.cls = "RetryError" THEN rec.exc.last ELSE rec.exc.cls

\* C2 (as claimed): when all 3 attempts of a call failed with a retryable
\* error, the error the caller sees has the class of the last attempt's error.
C2_LastErrorPropagates ==
    \A c \in Slots :
        (/\ call[c].st = "raised"
         /\ call[c].attempt_number = 3
         /\ LastAttemptClass(call[c]) \in
                {RateLimitError, APIConnectionError, Timeout, ServiceUnavailableError})
            => call[c].exc.cls = LastAttemptClass(call[c])

FiveClaimedClasses ==
    {RateLimitError, APIConnectionError, Timeout, ServiceUnavailableError,
     InternalServerError}
FourRetriedClasses ==
    {RateLimitError, APIConnectionError, Timeout, ServiceUnavailableError}

\* a failed attempt before the 3rd is retried iff its error class is in S:
\* a call sleeps only after an error of S, and a call that raised before its
\* 3rd attempt raised an error outside S
RetriedExactly(S) ==
    \A c \in Slots :
        /\ (call[c].st = "sleeping" => call[c].exc.cls \in S)
        /\ (call[c].st = "raised" /\ call[c].attempt_number < 3
                => call[c].exc.cls \notin S)

C4_WaitsDouble ==
    \A c \in Slots : \A k \in DOMAIN call[c].slept :
        call[c].slept[k] = Min2(10, 2 * 2 ^ (k - 1))

\* C4 (amended): the wait after failed attempt k is max(2, min(10, 2^(k-1)))
\* seconds, which is 2s after the 1st and 2s after the 2nd failed attempt;
\* the recorded waits are non-decreasing and never exceed 10 seconds.
C4_Waits ==
    \A c \in Slots :
        /\ call[c].slept \in {<<>>, <<2>>, <<2, 2>>}
        /\ \A k \in DOMAIN call[c].slept :
              /\ call[c].slept[k] <= 10
              /\ (k > 1 => call[c].slept[k - 1] <= call[c].slept[k])

\* a call has slept twice and is in its 3rd attempt
C4_Witness ==
    \E c \in Slots : Len(call[c].slept) = 2 /\ call[c].attempt_number = 3

\* the model id the registry gives for the key of the request
RequestedModelId ==
    CASE model_key = "claude-sonnet-4.5" -> "claude-sonnet-4-5-20250929"
      [] model_key \in {NoKey, "gemini-3-flash"} -> "gemini/gemini-3-flash-preview"
      [] model_key = "gemini-3-pro" -> "gemini/gemini-3-pro-preview"
      [] OTHER -> "<unknown>"

\* the single-call stream of POST /generate-stream ended because the call to
\* the primary model exhausted its retries or its response did not parse
PrimaryFailed ==
    /\ mode = "boundary" /\ pc = "done" /\ outcome.kind = "raised"
    /\ \/ outcome.exc.cls = "RetryError"
       \/ outcome.exc.msg = "Failed to parse LLM response as JSON"

\* C5 (as claimed): when the primary model fails in Generating or Parsing
\* (retries exhausted, or the response does not parse) and the model key is
\* fallback-eligible, a fallback progress event is emitted and the strategy
\* is run again on the fallback model.  The default model is the primary of
\* the common case, so the designated fallback differs from it and a request
\* without a model key is fallback-eligible.
C5_FallbackRuns ==
    (PrimaryFailed /\ model_key = NoKey)
        => /\ \E i \in DOMAIN sse : sse[i].type = "progress" /\ sse[i].stage = "fallback"
           /\ \E inv \in backend : inv.model /= RequestedModelId

StageCount(stage) ==
    Cardinality({i \in DOMAIN events : events[i].type = "progress" /\ events[i].stage = stage})

Unwrap(result, key) ==
    IF IsDict(result) /\ key \in Keys(result) THEN result[2][key] ELSE result

CurriculumYielded ==
    /\ mode = "parallel_streaming"
    /\ Len(events) > 0 /\ events[Len(events)].type = "curriculum"

\* C7: whenever the dual-call stream yields its curriculum, teacher_guide is
\* the teacher call's result unwrapped (its teacher_guide key, or the whole
\* result without that key) if the teacher call succeeded and {} if it
\* failed, student_materials is the student call's result unwrapped likewise
\* or {} if the student call failed, and at least one call succeeded; the
\* blocking dual call returns the same merge of two successful results.
C7_MergeSources ==
    /\ CurriculumYielded =>
          LET d == events[Len(events)].data
              t == call["teacher"].out
              u == call["student"].out
          IN /\ t.ok \/ u.ok
             /\ d[2][TG] = IF t.ok THEN Unwrap(t.v, TG) ELSE EmptyDict
             /\ d[2][SM] = IF u.ok THEN Unwrap(u.v, SM) ELSE EmptyDict
    /\ (mode = "parallel" /\ outcome.kind = "returned") =>
          /\ call["teacher"].out.ok /\ call["student"].out.ok
          /\ outcome.val[2][TG] = Unwrap(call["teacher"].out.v, TG)
          /\ outcome.val[2][SM] = Unwrap(call["student"].out.v, SM)

\* the teacher call returned its guide under the teacher_guide key, the
\* student call failed, and the curriculum has the guide and {}
C7_Witness ==
    /\ CurriculumYielded
    /\ call["teacher"].out.ok /\ TG \in Keys(call["teacher"].out.v)
    /\ ~call["student"].out.ok
    /\ events[Len(events)].data[2][TG] /= EmptyDict
    /\ events[Len(events)].data[2][SM] = EmptyDict

BothSubCallsFailed ==
    /\ mode = "parallel_streaming"
    /\ call["teacher"].st \in {"raised", "returned"} /\ ~call["teacher"].out.ok
    /\ call["student"].st \in {"raised", "returned"} /\ ~call["student"].out.ok

\* C8: in the dual-call stream, once both sub-calls have failed no curriculum
\* event exists or is produced, the run cannot end normally (it goes on, it
\* raises, or its consumer closes it), and when it ends by itself it has
\* raised one ValueError "Both generations failed" whose message quotes the
\* teacher call's error and the student call's error.
C8_BothFail ==
    BothSubCallsFailed =>
        /\ \A i \in DOMAIN events : events[i].type /= "curriculum"
        /\ outcome.kind \in {"none", "raised", "closed"}
        /\ pc \notin {"merge", "merge_teacher_failed", "merge_student_failed", "curriculum"}
        /\ pc = "done" =>
              /\ outcome.kind = "raised"
              /\ outcome.exc.cls = "ValueError"
              /\ outcome.exc.msg = "Both generations failed"
              /\ outcome.exc.parts =
                    << <<call["teacher"].out.exc.cls, call["teacher"].out.exc.msg,
                         call["teacher"].out.exc.last>>,
                       <<call["student"].out.exc.cls, call["student"].out.exc.msg,
                         call["student"].out.exc.last>> >>

\* the teacher call exhausted its retries, the student call's response did
\* not parse, and the run has raised the combined error
C8_Witness ==
    /\ BothSubCallsFailed /\ pc = "done"
    /\ call["teacher"].out.exc.cls = "RetryError"
    /\ call["student"].out.exc.msg = "Failed to parse LLM response as JSON"
    /\ outcome.exc.msg = "Both generations failed"

\* a progress event whose message names the failed side as unavailable
IsWarning(e, side) ==
    /\ e.type = "progress"
    /\ e.message = IF side = "teacher"
                   THEN "Merging partial results (teacher guide unavailable)..."
                   ELSE "Merging partial results (student materials unavailable)..."

\* C9 (as claimed): in the dual-call stream, when exactly one sub-call fails
\* the run ends successfully with a curriculum as its last event, and a
\* warning progress event naming the failed side precedes that event.
C9_PartialSucceeds ==
    (/\ mode = "parallel_streaming" /\ pc = "done"
     /\ call["teacher"].st \in {"raised", "returned"}
     /\ call["student"].st \in {"raised", "returned"}
     /\ call["teacher"].out.ok /= call["student"].out.ok)
        => /\ outcome.kind = "finished"
           /\ events[Len(events)].type = "curriculum"
           /\ \E i \in 1..(Len(events) - 1) :
                 IsWarning(events[i], IF call["teacher"].out.ok THEN "student" ELSE "teacher")

HasTwoKeys(v) == IsDict(v) /\ Keys(v) = {TG, SM}

\* C10 (as claimed): every curriculum the orchestrator returns or yields,
\* single-call or dual-call, is an object whose key set is exactly
\* {teacher_guide, student_materials}.
C10_TwoKeys ==
    /\ outcome.kind = "returned" => HasTwoKeys(outcome.val)
    /\ \A i \in DOMAIN events :
          events[i].type = "curriculum" => HasTwoKeys(events[i].data)

TerminalEvents == {i \in DOMAIN sse : sse[i].type \in {"result", "error"}}

\* C11 (as claimed): every run of the streaming entry point POST
\* /generate-stream that has ended has sent exactly one terminal event, a
\* result or an error, and that event is the last one sent; no run ends on a
\* progress event.
C11_OneTerminal ==
    (mode = "boundary" /\ pc = "done")
        => /\ Len(sse) > 0
           /\ sse[Len(sse)].type \in {"result", "error"}
           /\ Cardinality(TerminalEvents) = 1

\* C12 (as claimed): the max-token budget the single-call strategy passes to
\* the model is 16000 + (num_days - 1) * 8000, which is 16000, 24000, 32000
\* for 1, 2, 3 days.
C12_TokenBudget ==
    \A inv \in backend :
        inv.slot = "main" => inv.max_tokens = 16000 + (num_days - 1) * 8000

\* the blocking single call has returned text and generate_curriculum has ended
ParsedBlocking ==
    mode = "blocking" /\ pc = "done" /\ call["main"].st = "returned"

RoundTrips(objects) ==
    ParsedBlocking =>
        \A o \in objects : \A form \in Forms :
            call["main"].text = Render(Dumps(o), form) => outcome = Returned(o)

\* C13 (as claimed): for every JSON object O, objects whose strings hold
\* triple backticks included, the parser returns O from O serialized bare,
\* in a json-hinted fence and in an unhinted fence.
C13_RoundTrip == RoundTrips(SampleObjects)

\* what the two blocks of TwoBlocks decode to
FirstBlockValue == Obj1("a", JNum(1))
SecondBlockValue == Obj1("b", JNum(1))

\* C14 (as claimed): of two fenced blocks with different content, hinted or
\* not and in any order, the parser decodes the first in text order.
C14_FirstInTextOrder ==
    ParsedBlocking =>
        \A k1, k2 \in BlockKinds :
            call["main"].text = TwoBlocks(k1, k2) => outcome = Returned(FirstBlockValue)

\* C14 (amended): of two fenced blocks with different content the parser
\* decodes exactly one and never a concatenation: the first json-hinted
\* block if one of the blocks is json-hinted (even when an unhinted block
\* precedes it), else the first block; of two json-hinted blocks, the first.
C14_HintedBlockFirst ==
    ParsedBlocking =>
        \A k1, k2 \in BlockKinds :
            call["main"].text = TwoBlocks(k1, k2) =>
                outcome = Returned(IF k1 = "plain" /\ k2 = "json"
                                   THEN SecondBlockValue ELSE FirstBlockValue)

\* an unhinted block followed by a json-hinted block was parsed: the second
\* block's content was returned
C14_Witness ==
    /\ ParsedBlocking
    /\ call["main"].text = TwoBlocks("plain", "json")
    /\ outcome = Returned(SecondBlockValue)

\* the text the blocking single call returned does not decode
MalformedParsed == ParsedBlocking /\ call["main"].text \in MalformedTexts

FirstAtoms(text, n) == SubSeq(text, 1, IF Len(text) > n THEN n ELSE Len(text))

\* C15 (as claimed): for every text that does not decode, the parser raises
\* its own parse error, not the decode exception, and the raised error
\* carries the decode error and a preview of at most the first 500
\* characters of the original text.
C15_ErrorCarriesPreview ==
    MalformedParsed =>
        /\ outcome.kind = "raised"
        /\ outcome.exc.cls = "ValueError"
        /\ outcome.exc.msg = "Failed to parse LLM response as JSON"
        /\ outcome.exc.last = "JSONDecodeError"
        /\ outcome.exc.parts = <<FirstAtoms(call["main"].text, 500)>>

\* C15 (amended): for every text that does not decode (malformed,
\* incomplete, empty, malformed inside a fence) the parser raises ValueError
\* "Failed to parse LLM response as JSON", raised from the decode error and
\* never the decode exception itself; the error carries no part of the text,
\* and the first 500 characters of the original text, before extraction, are
\* written once to the error log.  A text that decodes logs nothing.
C15_ErrorAndLoggedPreview ==
    /\ MalformedParsed =>
          /\ outcome.kind = "raised"
          /\ outcome.exc.cls = "ValueError"
          /\ outcome.exc.msg = "Failed to parse LLM response as JSON"
          /\ outcome.exc.last = "JSONDecodeError"
          /\ outcome.exc.parts = <<>>
          /\ call["main"].out.log = <<FirstAtoms(call["main"].text, 500)>>
          /\ Len(call["main"].out.log[1]) <= 500
    /\ \A c \in Slots :
          /\ call[c].out.ok => call[c].out.log = <<>>
          /\ call[c].out.exc.cls = "JSONDecodeError" => FALSE

\* a malformed text longer than the preview was parsed: the error is raised
\* and exactly 500 characters were logged
C15_Witness ==
    /\ MalformedParsed
    /\ Len(call["main"].text) > 500
    /\ outcome.exc.msg = "Failed to parse LLM response as JSON"
    /\ Len(call["main"].out.log[1]) = 500

\* the four orchestrator entry points (POST /generate-stream validates the
\* key itself before it reaches generate_curriculum_streaming)
EntryPoints == {"blocking", "streaming", "parallel", "parallel_streaming"}

KeyInRegistry ==
    model_key \in {"claude-sonnet-4.5", "gemini-3-flash", "gemini-3-pro"}

\* C16: a null key resolves to the default model's backend id and a key of
\* the registry to its entry's backend id, so every model call of the run
\* carries that id; a non-null key missing from the registry fails with
\* ValueError "Unknown model", and in each of the four entry points that
\* failure is the first thing that happens: no model call was attempted, no
\* call left idle, no progress event was emitted.
C16_ModelResolution ==
    /\ (model_key = NoKey \/ KeyInRegistry)
          => /\ \A inv \in backend : inv.model = RequestedModelId
             /\ outcome.exc.msg /= "Unknown model"
             /\ (mode \in EntryPoints /\ pc = "done") => backend /= {}
    /\ (model_key /= NoKey /\ ~KeyInRegistry)
          => /\ backend = {}
             /\ events = <<>> /\ sse = <<>>
             /\ \A c \in Slots : call[c].st = "idle" /\ call[c].attempt_number = 0
             /\ (mode \in EntryPoints /\ pc /= "start")
                   => /\ pc = "done"
                      /\ outcome.kind = "raised"
                      /\ outcome.exc.cls = "ValueError"
                      /\ outcome.exc.msg = "Unknown model"

\* the dual-call stream was asked for a key missing from the registry and
\* has failed with the unknown-model error
C16_Witness ==
    /\ mode = "parallel_streaming" /\ model_key = "nonexistent-model"
    /\ pc = "done" /\ outcome.exc.msg = "Unknown model"
    /\ backend = {} /\ events = <<>>

\* position of an event in the state machine loading, generating, parsing,
\* anything later (the curriculum, the stages of the stream endpoint, the
\* terminal events)
StageRank(e) ==
    IF e.type /= "progress" THEN 4
    ELSE CASE e.stage = "loading" -> 1
           [] e.stage = "generating" -> 2
           [] e.stage = "parsing" -> 3
           [] OTHER -> 4

InStageOrder(seq) ==
    \A i, j \in DOMAIN seq : i < j => StageRank(seq[i]) <= StageRank(seq[j])

HasStageBefore(seq, stage, n) ==
    \E i \in 1..(n - 1) : seq[i].type = "progress" /\ seq[i].stage = stage

StreamingRun == mode \in {"streaming", "boundary", "parallel_streaming"}

\* the generator has failed: its events, and nothing after them
FailedStream == StreamingRun /\ outcome.kind = "raised"

C17_StagesInOrder ==
    StreamingRun =>
        /\ InStageOrder(events) /\ InStageOrder(sse)
        /\ \A n \in DOMAIN events :
              /\ StageRank(events[n]) >= 2 => HasStageBefore(events, "loading", n)
              /\ StageRank(events[n]) >= 3 => HasStageBefore(events, "generating", n)
              /\ events[n].type = "curriculum"
                    => HasStageBefore(events, "parsing", n) /\ n = Len(events)
        /\ backend /= {}
              => /\ HasStageBefore(events, "loading", Len(events) + 1)
                 /\ HasStageBefore(events, "generating", Len(events) + 1)
        /\ FailedStream
              => /\ pc = "done"
                 /\ \A n \in DOMAIN events : events[n].type = "progress"
                 /\ mode = "boundary" => sse[Len(sse)].type = "error"

C17_EventsKept ==
    /\ Len(events') >= Len(events)
    /\ SubSeq(events', 1, Len(events)) = events
    /\ (outcome'.kind = "raised" /\ mode = "boundary")
            => SubSeq(sse', 1, Len(sse' ) - 1) = SubSeq(sse, 1, Len(sse' ) - 1)
    /\ FailedStream => events' = events

\* C17: in every streaming run, single-call and dual-call, the progress
\* events follow loading, generating, parsing: no event of an earlier stage
\* comes after an event of a later stage, a generating event has a loading
\* event before it, a parsing event a generating event before it, the
\* curriculum a parsing event before it, and every model call is preceded by
\* a loading and a generating event; events once emitted are never removed or
\* changed, and a failing run keeps them, emits nothing further and ends
\* with the error.
C17_StageMachine == []C17_StagesInOrder /\ [][C17_EventsKept]_vars

\* a dual-call stream has yielded its curriculum after loading, generating
\* and parsing events
C17_Witness ==
    /\ mode = "parallel_streaming" /\ Len(events) >= 4
    /\ events[Len(events)].type = "curriculum"
    /\ HasStageBefore(events, "parsing", Len(events))

\* a single-call stream failed after it had emitted progress events
C17_FailedWitness ==
    /\ mode = "streaming" /\ outcome.kind = "raised"
    /\ Len(events) >= 3 /\ events[Len(events)].stage = "parsing"

\* the single call of generate_curriculum failed twice and returned on its
\* 3rd attempt
ThirdAttemptSucceeded ==
    /\ mode = "blocking" /\ pc = "done"
    /\ call["main"].st = "returned" /\ call["main"].attempt_number = 3

\* C18 (as claimed): each retry logs a warning with the attempt number
\* before its sleep, and the single-call run that fails twice and succeeds
\* on the 3rd attempt triggers no fallback, returns one result and has
\* recorded exactly 3 attempt logs.
C18_ThreeAttemptLogs ==
    ThirdAttemptSucceeded =>
        /\ \A inv \in backend : inv.model = RequestedModelId
        /\ Len(call["main"].logged) = 3

\* C18 (amended): a warning with the number of the failed attempt is logged
\* once per retry, before the sleep of that retry, and at no other time: a
\* call that sleeps after attempt k has logged 1..k, a call in or after
\* attempt k has logged 1..k-1; the single-call run that fails twice and
\* succeeds on the 3rd attempt has recorded exactly 2 warnings (1 and 2),
\* has invoked the requested model only, and returns the one decoded result.
C18_RetryLogs ==
    /\ \A c \in Slots :
          /\ Len(call[c].logged) = Len(call[c].slept)
          /\ \A i \in DOMAIN call[c].logged : call[c].logged[i] = i
          /\ call[c].st = "sleeping" => Len(call[c].logged) = call[c].attempt_number
          /\ call[c].st \in {"attempting", "returned", "raised"}
                => Len(call[c].logged) = call[c].attempt_number - 1
    /\ ThirdAttemptSucceeded =>
          /\ call["main"].logged = <<1, 2>>
          /\ \A inv \in backend : inv.model = RequestedModelId
          /\ Cardinality(backend) = 1
          /\ call["main"].out.ok => outcome = Returned(call["main"].out.v)

\* the run of the scenario: two retries logged, the 3rd attempt returned a
\* response that decoded, the result was returned
C18_Witness ==
    /\ ThirdAttemptSucceeded
    /\ call["main"].out.ok /\ outcome.kind = "returned"
    /\ call["main"].logged = <<1, 2>> /\ Len(call["main"].slept) = 2

DualCall == mode \in {"parallel", "parallel_streaming"}

Started(c) == call[c].st /= "idle"

HasMessage(message) ==
    \E i \in DOMAIN events : events[i].type = "progress" /\ events[i].message = message

\* the stream reported the student materials while the teacher guide was
\* still outstanding
StudentReportedFirst ==
    HasMessage("Student materials complete, waiting for teacher guide...")

\* both sub-calls returned JSON objects
BothObjects ==
    /\ call["teacher"].out.ok /\ IsDict(call["teacher"].out.v)
    /\ call["student"].out.ok /\ IsDict(call["student"].out.v)

MergedValue ==
    TwoKeys(Unwrap(call["teacher"].out.v, TG), Unwrap(call["student"].out.v, SM))

\* C19: in the dual-call strategy both sub-calls are started together,
\* before the orchestrator waits on either: in no state has one sub-call
\* been started and the other not, so the student call is running while the
\* teacher call has not completed; and whichever sub-call completes first,
\* two sub-calls that returned objects end in the same merged result.
C19_StartedTogether ==
    DualCall =>
        /\ Started("teacher") <=> Started("student")
        /\ (\E inv \in backend : inv.slot = "teacher")
              <=> (\E inv \in backend : inv.slot = "student")
        /\ ~CallDone(call["teacher"]) /\ Started("teacher")
              => call["student"].attempt_number >= 1
        /\ (CurriculumYielded /\ BothObjects)
              => events[Len(events)].data = MergedValue
        /\ (mode = "parallel" /\ pc = "done" /\ BothObjects)
              => outcome = Returned(MergedValue)

\* the student call completed while the teacher call was still attempting,
\* the stream reported it in that order, and the merged curriculum was
\* yielded
C19_Witness ==
    /\ CurriculumYielded /\ BothObjects /\ StudentReportedFirst
    /\ events[Len(events)].data = MergedValue

\* the other order: the teacher call was reported first
C19_TeacherFirst ==
    /\ CurriculumYielded /\ BothObjects
    /\ HasMessage("Student materials complete!")
    /\ events[Len(events)].data = MergedValue

\* the student call has completed while the teacher call is in an attempt
C19_StudentAhead ==
    /\ DualCall /\ CallDone(call["student"]) /\ call["teacher"].st = "attempting"

Cancelled(c) == call[c].st = "cancelled"

\* the consumer has stopped, or the blocking dual call has raised the first
\* failure of a sub-call
OrchestratorGone ==
    \/ mode = "parallel_streaming" /\ pc = "closed"
    \/ mode = "parallel" /\ pc = "done" /\ outcome.kind = "raised"

BothCancelled == Cancelled("teacher") /\ Cancelled("student")

C20_Together ==
    DualCall =>
        /\ Cancelled("teacher") <=> Cancelled("student")
        /\ Started("teacher") <=> Started("student")

C20_GatherWitness ==
    /\ mode = "parallel" /\ pc = "done" /\ outcome.kind = "raised"
    /\ call["student"].st = "raised" /\ call["teacher"].st = "attempting"

\* what the dual-call stream ends with, given the two sub-calls' results:
\* the curriculum it yields last, or the error it raises
StreamTerminal(t, u) ==
    IF ~t.ok /\ ~u.ok THEN Raised(BothFailed(t.exc, u.exc))
    ELSE IF ~t.ok THEN AsOutcome(MergeTeacherFailed(u.v))
    ELSE IF ~u.ok THEN AsOutcome(MergeStudentFailed(t.v))
    ELSE AsOutcome(_merge_parallel_results(t.v, u.v))

BothSubCallsDone == CallDone(call["teacher"]) /\ CallDone(call["student"])

\* the dual-call stream has ended by itself
DualStreamEnded ==
    /\ mode = "parallel_streaming" /\ BothSubCallsDone
    /\ \/ pc = "done"
       \/ pc = "curriculum"

\* what the stream that has ended did end with
DualStreamEnd ==
    IF events /= <<>> /\ events[Len(events)].type = "curriculum"
    THEN Returned(events[Len(events)].data)
    ELSE outcome

\* the stream's terminal event is the one StreamTerminal computes
C21_StreamTerminalIsRun ==
    DualStreamEnded =>
        DualStreamEnd = StreamTerminal(call["teacher"].out, call["student"].out)

\* C21: for the same model outcomes the blocking entry point returns the
\* payload of the stream's terminal event and raises iff the stream ends in
\* an error: the single call returns what the single-call stream yields as
\* its curriculum, and the blocking dual call, for every combination of
\* sub-call outcomes (both succeed, exactly one fails, both fail), returns
\* the curriculum the dual-call stream yields and raises iff the stream
\* raises.
C21_BlockingIsDrainedStream ==
    /\ (mode = "blocking" /\ pc = "done" /\ call["main"].st = "returned")
          => outcome = AsOutcome(ParsedResponse[call["main"].text])
    /\ (mode = "streaming" /\ pc \in {"curriculum", "done"} /\ call["main"].st = "returned"
            /\ call["main"].out /= NoOut)
          => DualStreamEnd = AsOutcome(ParsedResponse[call["main"].text])
    /\ (mode = "parallel" /\ pc = "done" /\ BothSubCallsDone)
          => LET s == StreamTerminal(call["teacher"].out, call["student"].out)
             IN /\ outcome.kind = s.kind
                /\ outcome.kind = "returned" => outcome.val = s.val

\* the blocking dual call with both sub-calls successful
C21_BothSucceed ==
    (mode = "parallel" /\ pc = "done" /\ BothSubCallsDone
        /\ call["teacher"].out.ok /\ call["student"].out.ok)
       => LET s == StreamTerminal(call["teacher"].out, call["student"].out)
          IN outcome.kind = s.kind /\ (outcome.kind = "returned" => outcome.val = s.val)

\* the two error events a caller of POST /generate-stream can receive
FixedErrorEvents ==
    {[type |-> "error", stage |-> "", data |-> PyNone,
      message |-> "Generation failed. Please try again."],
     [type |-> "error", stage |-> "", data |-> PyNone,
      message |-> "Generation timed out. Try again or select a different model."]}

ErrorEventFor(kind) ==
    [type |-> "error", stage |-> "", data |-> PyNone,
     message |-> IF kind = "Timeout"
                 THEN "Generation timed out. Try again or select a different model."
                 ELSE "Generation failed. Please try again."]

\* C22: every error event sent over the streaming boundary is one of the two
\* fixed events (generation failed, generation timed out) and is the last
\* event of its stream; the error event of a run whose generator raised
\* depends on nothing of the exception but whether it is a timeout, so two
\* runs failing with different exceptions of one kind send the same event
\* and no message, cause or class of an internal exception reaches the
\* caller.
C22_FixedErrorEvents ==
    mode = "boundary" =>
        /\ \A i \in DOMAIN sse :
              sse[i].type = "error" => sse[i] \in FixedErrorEvents /\ i = Len(sse)
        /\ outcome.kind = "raised"
              => /\ sse /= <<>>
                 /\ sse[Len(sse)] = ErrorEventFor(outcome.exc.cls)

\* the generator raised the parse failure, whose message quotes the decode
\* error, and the caller received the generation-failed event
C22_Witness ==
    /\ mode = "boundary" /\ outcome.kind = "raised"
    /\ outcome.exc.msg = "Failed to parse LLM response as JSON"
    /\ outcome.exc.last = "JSONDecodeError"
    /\ sse[Len(sse)].message = "Generation failed. Please try again."

\* the conditions on a request that the claim lists
ListedConditions ==
    /\ req.grade \in 0..12
    /\ req.subject \in {"Math", "ELA", "Science", "History"}
    /\ Len(req.topic) <= 500
    /\ \A i \in DOMAIN req.topic : req.topic[i] \notin {"LF", "CR"}
    /\ req.session_length \in 5..120
    /\ num_days \in 1..3
    /\ model_key \in {NoKey, "claude-sonnet-4.5", "gemini-3-flash", "gemini-3-pro"}
    /\ req.pedagogical_approach \in {NoApproach, "", "3_act_math"}

\* the two patterns the claim does not list
GoalAndGroupConditions ==
    /\ req.learning_goal_type \in {"introduce", "practice", "assess", "remediate"}
    /\ req.group_format \in {"individual", "small_group", "whole_class"}

Validated == mode = "boundary" /\ pc /= "start"

NothingStarted ==
    /\ backend = {} /\ events = <<>> /\ sse = <<>>
    /\ outcome.kind = "none"
    /\ \A c \in Slots : call[c].st = "idle"

\* C23 (as claimed): a request is accepted iff the listed conditions on
\* grade, subject, topic, session length, num_days, model and
\* pedagogical_approach hold, and a rejected request gets a 422 and starts
\* nothing.
C23_AcceptedIffListed ==
    Validated =>
        /\ pc /= "rejected_422" <=> ListedConditions
        /\ pc = "rejected_422" => NothingStarted

\* C23 (amended): a request is accepted iff the listed conditions hold and
\* learning_goal_type is one of introduce, practice, assess, remediate and
\* group_format is one of individual, small_group, whole_class; the accepted
\* request has its topic stripped and an empty pedagogical_approach made
\* null; a rejected request gets a 422 and no orchestrator run or model call
\* is started for it.
C23_AcceptedIffAll ==
    Validated =>
        /\ pc /= "rejected_422" <=> (ListedConditions /\ GoalAndGroupConditions)
        /\ pc = "rejected_422" => NothingStarted
        /\ pc /= "rejected_422"
              => /\ req.pedagogical_approach /= ""
                 /\ req.topic /= <<>> => req.topic[1] /= " " /\ req.topic[Len(req.topic)] /= " "

\* a request that meets every listed condition was rejected with a 422 for
\* its learning_goal_type
C23_Witness ==
    /\ mode = "boundary" /\ pc = "rejected_422"
    /\ ListedConditions /\ NothingStarted
    /\ req.learning_goal_type = "lecture" /\ req.group_format = "small_group"

\* a request with a topic of exactly 500 characters was accepted and its
\* model call was started
C23_AcceptedAtLimit ==
    /\ mode = "boundary" /\ pc = "calling"
    /\ Len(req.topic) = 500 /\ req.grade = 12 /\ backend /= {}

\* the single-call stream has been opened: the call of _call_llm_sync with
\* stream=True has returned
StreamOpened == mode \in {"streaming", "boundary"} /\ call["main"].st = "returned"

\* the opened stream failed while its fragments were read (the response was
\* never handed to the parser)
BrokenMidStream ==
    /\ StreamOpened /\ outcome.kind = "raised" /\ call["main"].out = NoOut

C24_Terminal ==
    BrokenMidStream =>
        /\ pc = "done"
        /\ outcome.exc.cls \in
              {"RateLimitError", "APIConnectionError", "Timeout", "ServiceUnavailableError",
               "InternalServerError", "BadRequestError", "AuthenticationError"}
        /\ Cardinality(backend) = 1
        /\ mode = "boundary" => sse[Len(sse)].type = "error"

C24_NoFurtherCall ==
    StreamOpened =>
        /\ backend' = backend
        /\ call' = call \/ (pc = "parsing" /\ call'["main"].st = "returned"
                               /\ call'["main"].attempt_number = call["main"].attempt_number)
        /\ BrokenMidStream => UNCHANGED <<pc, events, sse, outcome>>

\* C24: in the single-call stream the retry policy covers only the opening
\* of the stream: once the call has returned the stream, no step makes a
\* further attempt or a further model call, and a failure while fragments
\* are read, retryable or not, is raised as it is, ends the run, and reaches
\* the caller of the boundary as the terminal error event.
C24_RetryOnlyOpening == []C24_Terminal /\ [][C24_NoFurtherCall]_vars

\* a stream opened on the 2nd attempt broke with a rate-limit error after
\* fragments had been read, and the run ended with the error event
C24_Witness ==
    /\ mode = "boundary" /\ BrokenMidStream
    /\ call["main"].attempt_number = 2 /\ chunk_count > 0
    /\ outcome.exc.cls = "RateLimitError"
    /\ sse[Len(sse)].type = "error"

\* the completion notifications of the dual-call stream, by position
TeacherNotes ==
    {i \in DOMAIN events :
        /\ events[i].type = "progress"
        /\ events[i].message \in
              {"Teacher guide complete, waiting for student materials...",
               "Teacher guide failed, waiting for student materials..."}}

StudentNotes ==
    {i \in DOMAIN events :
        /\ events[i].type = "progress"
        /\ events[i].message \in
              {"Student materials complete!",
               "Student materials complete, waiting for teacher guide...",
               "Student materials failed."}}

BothNotified == TeacherNotes /= {} /\ StudentNotes /= {}

StudentNotifiedFirst ==
    BothNotified /\ \A i \in StudentNotes : \A j \in TeacherNotes : i < j

TeacherNotifiedFirst ==
    BothNotified /\ \A i \in StudentNotes : \A j \in TeacherNotes : j < i

\* each side is notified exactly once, in the step in which the loop finds
\* it done, by a generating event that tells success from failure
OneNotificationEach ==
    /\ Cardinality(TeacherNotes) = IF loc.teacher_done THEN 1 ELSE 0
    /\ Cardinality(StudentNotes) = IF loc.student_done THEN 1 ELSE 0
    /\ \A i \in TeacherNotes \cup StudentNotes : events[i].stage = "generating"
    /\ \A i \in TeacherNotes :
          (events[i].message = "Teacher guide failed, waiting for student materials...")
              <=> ~call["teacher"].out.ok
    /\ \A i \in StudentNotes :
          (events[i].message = "Student materials failed.") <=> ~call["student"].out.ok
    /\ loc.teacher_done => CallDone(call["teacher"])
    /\ loc.student_done => CallDone(call["student"])

\* C25 (as claimed): each side produces exactly one completion notification,
\* emitted in the poll that discovers the completion, and if the student
\* sub-call finishes before the teacher sub-call the student notification
\* precedes the teacher notification.
C25_CompletionOrder ==
    mode = "parallel_streaming" =>
        /\ OneNotificationEach
        /\ (BothNotified /\ call["student"].order = 1) => StudentNotifiedFirst

\* C25 (amended): each side produces exactly one completion notification,
\* emitted in the poll that discovers the completion; the notifications
\* appear in the order of discovery, where one poll looks at the teacher
\* call before the student call: the student notification precedes the
\* teacher notification only if the student sub-call finished first, and a
\* teacher sub-call that finished first is always notified first.
C25_DiscoveryOrder ==
    mode = "parallel_streaming" =>
        /\ OneNotificationEach
        /\ BothNotified => StudentNotifiedFirst \/ TeacherNotifiedFirst
        /\ StudentNotifiedFirst => call["student"].order = 1
        /\ (BothNotified /\ call["teacher"].order = 1) => TeacherNotifiedFirst

\* the student sub-call finished first, the teacher sub-call finished before
\* the next poll, and that poll notified the teacher side first
C25_Witness ==
    /\ mode = "parallel_streaming"
    /\ call["student"].order = 1 /\ call["teacher"].order = 2
    /\ TeacherNotifiedFirst

\* the student sub-call was found done in an earlier poll and notified first
C25_StudentFirst ==
    /\ mode = "parallel_streaming" /\ StudentNotifiedFirst
    /\ call["student"].order = 1

\* C26: every progress event sent to the caller of the streaming boundary
\* has a stage out of loading, generating, parsing, fallback, docx, complete.
C26_StageSet ==
    mode = "boundary" =>
        \A i \in DOMAIN sse :
            sse[i].type = "progress"
                => sse[i].stage \in
                      {"loading", "generating", "parsing", "fallback", "docx", "complete"}

WaitingForStudent(e) ==
    /\ e.type = "progress"
    /\ e.message \in {"Teacher guide complete, waiting for student materials...",
                      "Teacher guide failed, waiting for student materials..."}

WaitingForTeacher(e) ==
    /\ e.type = "progress"
    /\ e.message = "Student materials complete, waiting for teacher guide..."

\* C27: in the dual-call stream a message that says the orchestrator is
\* waiting for the other side is emitted only if that side has not been
\* reported done, completed or failed, earlier in the stream.
C27_WaitingIsTrue ==
    mode = "parallel_streaming" =>
        \A i \in DOMAIN events :
            /\ WaitingForStudent(events[i]) => \A j \in StudentNotes : i < j
            /\ WaitingForTeacher(events[i]) => \A j \in TeacherNotes : i < j

\* the student side alone: its waiting message is never emitted after the
\* teacher side was reported
C27_StudentSide ==
    mode = "parallel_streaming" =>
        \A i \in DOMAIN events :
            WaitingForTeacher(events[i]) => \A j \in TeacherNotes : i < j

\* the poll loop of the dual-call stream has ended
AfterPollLoop ==
    /\ mode = "parallel_streaming" /\ loc.teacher_done /\ loc.student_done
    /\ pc \in {"merge", "merge_teacher_failed", "merge_student_failed", "curriculum", "done"}

ExactlyOneSet(result, error) == (result /= PyNone) /= (error /= NoExc)

\* C28: for every pair of sub-call outcomes, an output that decodes to a
\* JSON value that is no object included, the dual-call stream ends by
\* yielding one curriculum event or by raising the combined both-failed
\* error, no other exception leaves the merge step, and after the poll loop
\* each side has exactly one of its result and its error set.
C28_CurriculumOrBothFailed ==
    /\ (mode = "parallel_streaming" /\ outcome.kind = "raised")
          => \/ outcome.exc.msg = "Both generations failed"
             \/ outcome.exc.msg = "Unknown model"
    /\ (mode = "parallel_streaming" /\ pc = "done" /\ outcome.kind = "finished")
          => Cardinality({i \in DOMAIN events : events[i].type = "curriculum"}) = 1
    /\ AfterPollLoop
          => /\ ExactlyOneSet(loc.teacher_result, loc.teacher_error)
             /\ ExactlyOneSet(loc.student_result, loc.student_error)

\* the same for sub-calls whose successful outputs are all JSON objects
C28_ObjectsOnly ==
    (\A c \in SubSlots : call[c].out.ok => IsDict(call[c].out.v))
        => C28_CurriculumOrBothFailed

\* the single call of the stream endpoint gave up after every attempt had
\* ended in a request timeout
TimeoutsExhausted ==
    /\ mode = "boundary" /\ call["main"].st = "raised"
    /\ call["main"].attempt_number = 3
    /\ call["main"].exc.last = "Timeout"

\* C29: when the streamed generation fails because every attempt of the
\* model call timed out, the terminal error event of the boundary carries
\* the timed-out message, not the generation-failed message.
C29_TimedOutMessage ==
    TimeoutsExhausted =>
        /\ pc = "done"
        /\ sse[Len(sse)].type = "error"
        /\ sse[Len(sse)].message
              = "Generation timed out. Try again or select a different model."

\* a timeout raised while the fragments of an opened stream are read does
\* get the timed-out message
C29_MidStreamTimeout ==
    (mode = "boundary" /\ BrokenMidStream /\ outcome.exc.cls = "Timeout")
        => sse[Len(sse)].message
              = "Generation timed out. Try again or select a different model."

\* the generator has ended: it returned, it raised, or its consumer closed it
Terminated == pc \in {"done", "closed"}

\* the dual-call stream is past its poll loop
PastPollLoop ==
    /\ mode = "parallel_streaming"
    /\ \/ pc \in {"merge", "merge_teacher_failed", "merge_student_failed", "curriculum"}
       \/ pc = "done" /\ model_key /= "nonexistent-model"

C30_LoopExit ==
    /\ PastPollLoop
          => /\ loc.teacher_done /\ loc.student_done
             /\ CallDone(call["teacher"]) /\ CallDone(call["student"])
    /\ (mode = "parallel_streaming" /\ loc.teacher_done /\ loc.student_done)
          => pc /= "poll_sleep"
    /\ (mode \in {"streaming", "parallel_streaming"} /\ pc = "done")
          => \/ outcome.kind = "raised"
             \/ \E i \in DOMAIN events : events[i].type = "curriculum"

\* C30: if every attempt of a model call ends and the consumer keeps
\* consuming, every streaming generation terminates; the dual-call poll loop
\* is left only when both sub-calls have been observed done, it is left in
\* the iteration that observes the second of them, and the generator then
\* ends with a curriculum event or an error.
C30_Terminates == []C30_LoopExit /\ <>Terminated

\* the dual-call stream ended by itself after a sub-call had gone through
\* all three attempts
C30_Witness ==
    /\ mode = "parallel_streaming" /\ pc = "done"
    /\ loc.teacher_done /\ loc.student_done
    /\ call["teacher"].attempt_number = 3
    /\ outcome.kind = "finished"

====
